---- MODULE Spec2Model ----
(***************************************************************************)
(* Model of the scraping core of apps/ai-service:                          *)
(*   services/smart_scraper_service.py  SmartScraperService                *)
(*   scrapers/base_scraper.py           BaseScraper (session lifecycle)    *)
(*   scrapers/base_scraper_improved.py  _retry_with_backoff, _rate_limit   *)
(*   scrapers/utils.py                  get_rate_limit, wait_for_rate_limit*)
(*                                                                         *)
(* The module holds several specifications over one set of variables; each *)
(* specification drives one component and leaves the others idle.          *)
(*   SpecDedup   _deduplicate_products as a pure function                  *)
(*   SpecFresh   _filter_fresh_products as a pure function                 *)
(*   SpecSearch  intelligent_search and its per-store _scrape_store tasks  *)
(*   SpecRetry   _retry_with_backoff, with cancellation by the caller      *)
(*   SpecRate    wait_for_rate_limit of scrapers/utils.py                  *)
(*   SpecLoop    two store tasks on one event loop (blocking time.sleep)   *)
(*   SpecExtract AmazonScraper / ThomannScraper search and get_product     *)
(*   SpecPrice   sanitize_price and the two callers' defaults              *)
(*   SpecCache   lib/cache.py, services/cache_service.py, ensure_store     *)
(*   SpecClose   close() of BaseScraper in both base classes               *)
(*   SpecProduct the ScrapedProduct built from a card or a detail page     *)
(*   SpecResolve concurrent store resolutions (ensure_store, scrape_store) *)
(*   SpecPrices  the Price table under repeated saves                      *)
(*   SpecOpen    init_browser called again after a failure                 *)
(*   SpecJob     jobs/scraper_jobs.py scrape_store                         *)
(***************************************************************************)
EXTENDS Integers, Sequences, FiniteSets, TLC

VARIABLES
    \* ---- _deduplicate_products harness ----
    dpc,        \* "ready" | "once" | "twice"
    dIn,        \* the argument list `products`
    dOut,       \* _deduplicate_products(dIn)
    dOut2,      \* _deduplicate_products(dOut)
    \* ---- _filter_fresh_products harness ----
    fpc,        \* "ready" | "done"
    cache_ttl_hours,    \* SmartScraperService.cache_ttl_hours
    utcnow,     \* datetime.utcnow() at the call, in hours
    fIn,        \* the argument list `products`
    fOut,       \* the returned list `fresh`
    \* ---- intelligent_search: one call and its per-store scrape tasks ----
    spc,            \* position of intelligent_search
    query,          \* the argument `query`
    stores_arg,     \* the argument `stores` ([] also stands for None)
    stores,         \* the list `stores` (after the default is applied)
    max_results_per_store,
    force_scrape,
    db_reads,       \* number of search_products calls made by the call
    results,        \* the dict `results`
    merged,         \* results["products"] as handed to _deduplicate_products
    tpc,            \* per store: position of its _scrape_store task
    held,           \* per store: browser resources its scraper still holds
    scraper,        \* per store: the scraper's fields browser / page (set?)
    scraped_products,   \* per store: what scraper.search returned
    next_save,      \* per store: index of the next product to save
    products_saved, \* per store: the list `products_saved`
    tfail,          \* per store: the step of the task that raised, or "none"
    search_failed,  \* per store: the search hit an error and gave []
    save_ok,        \* per store: outcome of each save so far (TRUE: saved)
    task_result,    \* per store: what _scrape_store returned
    \* ---- BaseScraperImproved._retry_with_backoff (times in half seconds) ----
    rpc,            \* position inside _retry_with_backoff
    max_retries,    \* self.max_retries
    retry_delay,    \* self.retry_delay, in seconds
    attempt,        \* the loop variable
    calls,          \* number of times func has been invoked
    outcomes,       \* outcome of each invocation, in order
    last_error,     \* the local last_error
    clock,          \* datetime.now()
    last_request_time,  \* self._last_request_time (NoTime: None)
    rl_waits,       \* what each _rate_limit call slept
    backoffs,       \* what each backoff asyncio.sleep slept
    retry_result,   \* the value returned (the number of the invocation that
                    \* produced it; 0: none)
    retry_error,    \* the ScraperError raised: attempt count and last failure
    cancelled_at,   \* the number of invocations made when the caller
                    \* cancelled the task (NoTime: it did not)
    \* ---- utils.wait_for_rate_limit (times in half seconds) ----
    rate_env,       \* os.environ: RATE_LIMIT_<STORE> where set
    wall,           \* wall clock
    rate_log,       \* the calls made so far: origin, start, return/raise
    \* ---- the event loop running the search card loops of two scrapers ----
    lnow,           \* wall clock of the event-loop thread (half seconds)
    lcards,         \* per store: cards of its page still to extract
    lready,         \* per store: when the awaited extraction of its next
                    \* card completes (NoTime: the task has no card left)
    lsleep,         \* per store: the last time.sleep its task made
    llog,           \* the card steps run so far
    \* ---- one call of an extractor's search / get_product ----
    xpc,            \* position inside the call
    xop,            \* "search" | "get_product"
    xpage_set,      \* self.page is set (the session has been opened)
    xmax,           \* max_results
    xcards,         \* the result page: per card, what its extraction gives
    xi,             \* index of the next card of the loop
    xproducts,      \* the list `products` (cards by their index)
    xnav,           \* what navigation gave ("none": not reached)
    xcaught,        \* exceptions caught by the except of the card loop
    xresult,        \* how the call ended: kind and returned items
    xtrace,         \* in order: the navigations issued ("goto") and the
                    \* rate limiter calls made ("rate_limit")
    \* ---- sanitize_price harness ----
    ppc,            \* "ready" | "done"
    price_str,      \* the text of the price element
    price_out,      \* sanitize_price(price_str) and the price each extractor
                    \* puts into the ScrapedProduct
    \* ---- one cache operation ----
    cpc,            \* "ready" | "done"
    cache_op,       \* the operation called
    backend,        \* the Redis server: "up" | "down"
    redis_client,   \* CacheManager.redis_client is set (connect succeeded)
    cached,         \* what Redis holds under the key: "absent", "valid",
                    \* or "corrupt" (a string that is no JSON)
    store_in_db,    \* the store row exists in the database
    cache_out,      \* how the operation ended
    \* ---- close() called on a session in any state ----
    session_class,  \* "BaseScraper" | "BaseScraperImproved"
    session_held,   \* the browser resources the session holds
    session_fields, \* which of self.playwright / browser / page are set
    close_log,      \* the close() calls made so far
    \* ---- one card or detail page turned into a ScrapedProduct ----
    kpc,            \* "ready" | "done"
    kextractor,     \* the extractor called
    kcard,          \* the elements the selectors find on the card / page
    kout,           \* what the extractor returned
    \* ---- concurrent resolutions of one store domain ----
    epc,            \* per caller: position inside its resolution
    resolver,       \* per caller: "ensure_store" | "scrape_store"
    domain_unique,  \* the database enforces one Store row per domain
    store_rows,     \* ids of the Store rows with the domain
    store_cache,    \* Redis "store:<domain>": the cached id (0: no entry)
    estore,         \* per caller: the local `store` (0: None)
    eresult,        \* per caller: the id it ends with (0: none yet,
                    \* -1: the create raised)
    \* ---- the Price table under repeated saves ----
    price_rows,     \* the Price rows, in order of creation
    price_saves,    \* number of saves made (also the clock of scrapedAt)
    last_save,      \* the last save: who made it, the table before it
    \* ---- init_browser called on a session without a page ----
    open_class,     \* "BaseScraper" | "BaseScraperImproved"
    open_held,      \* the browser resources the session holds
    open_fields,    \* which of self.playwright / browser / page are set
    open_log,       \* the init_browser calls made so far
    \* ---- the scheduled job scrape_store(store_name, search_queries) ----
    jpc,            \* position inside the job
    job_store,      \* the argument store_name
    job_queries,    \* len(search_queries)
    jq,             \* index of the query of the outer loop
    jfound,         \* len(products) of the current query's search
    jp,             \* index of the product of the inner loop
    jsaved,         \* products of the current query saved so far
    job_browser,    \* a browser has been acquired by the scraper
    close_calls,    \* number of scraper.close() calls made
    job_log,        \* per query processed: what its search gave and how
                    \* many of its products the save loop took up
    job_cancelled   \* the job was cancelled (CancelledError travelled out)

dedupVars == <<dpc, dIn, dOut, dOut2>>
freshVars == <<fpc, cache_ttl_hours, utcnow, fIn, fOut>>

callVars  == <<spc, query, stores_arg, stores, max_results_per_store,
               force_scrape, db_reads, results, merged>>
taskVars  == <<tpc, held, scraper, scraped_products, next_save,
               products_saved, tfail, search_failed, save_ok, task_result>>
searchVars == <<callVars, taskVars>>

retryVars == <<rpc, max_retries, retry_delay, attempt, calls, outcomes,
               last_error, clock, last_request_time, rl_waits, backoffs,
               retry_result, retry_error, cancelled_at>>
rateVars  == <<rate_env, wall, rate_log>>
loopVars  == <<lnow, lcards, lready, lsleep, llog>>
extractVars == <<xpc, xop, xpage_set, xmax, xcards, xi, xproducts, xnav,
                 xcaught, xresult, xtrace>>
priceVars == <<ppc, price_str, price_out>>
cacheVars == <<cpc, cache_op, backend, redis_client, cached, store_in_db,
               cache_out>>
closeVars == <<session_class, session_held, session_fields, close_log>>
productVars == <<kpc, kextractor, kcard, kout>>
resolveVars == <<epc, resolver, domain_unique, store_rows, store_cache,
                 estore, eresult>>
pricesVars == <<price_rows, price_saves, last_save>>
openVars == <<open_class, open_held, open_fields, open_log>>
jobVars == <<jpc, job_store, job_queries, jq, jfound, jp, jsaved,
             job_browser, close_calls, job_log, job_cancelled>>

vars == <<dedupVars, freshVars, searchVars, retryVars, rateVars, loopVars,
          extractVars, priceVars, cacheVars, closeVars, productVars,
          resolveVars, pricesVars, openVars, jobVars>>

\* What an action of one component leaves alone
othersOfDedup == <<freshVars, searchVars, retryVars, rateVars, loopVars,
                   extractVars, priceVars, cacheVars, closeVars, productVars,
                   resolveVars, pricesVars, openVars, jobVars>>
othersOfFresh == <<dedupVars, searchVars, retryVars, rateVars, loopVars,
                   extractVars, priceVars, cacheVars, closeVars, productVars,
                   resolveVars, pricesVars, openVars, jobVars>>
othersOfSearch == <<dedupVars, freshVars, retryVars, rateVars, loopVars,
                    extractVars, priceVars, cacheVars, closeVars,
                    productVars, resolveVars, pricesVars, openVars, jobVars>>
othersOfRetry == <<dedupVars, freshVars, searchVars, rateVars, loopVars,
                   extractVars, priceVars, cacheVars, closeVars, productVars,
                   resolveVars, pricesVars, openVars, jobVars>>
othersOfRate == <<dedupVars, freshVars, searchVars, retryVars, loopVars,
                  extractVars, priceVars, cacheVars, closeVars, productVars,
                  resolveVars, pricesVars, openVars, jobVars>>
othersOfLoop == <<dedupVars, freshVars, searchVars, retryVars, rateVars,
                  extractVars, priceVars, cacheVars, closeVars, productVars,
                  resolveVars, pricesVars, openVars, jobVars>>
othersOfExtract == <<dedupVars, freshVars, searchVars, retryVars, rateVars,
                     loopVars, priceVars, cacheVars, closeVars, productVars,
                     resolveVars, pricesVars, openVars, jobVars>>
othersOfPrice == <<dedupVars, freshVars, searchVars, retryVars, rateVars,
                   loopVars, extractVars, cacheVars, closeVars, productVars,
                   resolveVars, pricesVars, openVars, jobVars>>
othersOfCache == <<dedupVars, freshVars, searchVars, retryVars, rateVars,
                   loopVars, extractVars, priceVars, closeVars, productVars,
                   resolveVars, pricesVars, openVars, jobVars>>
othersOfClose == <<dedupVars, freshVars, searchVars, retryVars, rateVars,
                   loopVars, extractVars, priceVars, cacheVars, productVars,
                   resolveVars, pricesVars, openVars, jobVars>>
othersOfProduct == <<dedupVars, freshVars, searchVars, retryVars, rateVars,
                     loopVars, extractVars, priceVars, cacheVars, closeVars,
                     resolveVars, pricesVars, openVars, jobVars>>
othersOfResolve == <<dedupVars, freshVars, searchVars, retryVars, rateVars,
                     loopVars, extractVars, priceVars, cacheVars, closeVars,
                     productVars, pricesVars, openVars, jobVars>>
othersOfPrices == <<dedupVars, freshVars, searchVars, retryVars, rateVars,
                    loopVars, extractVars, priceVars, cacheVars, closeVars,
                    productVars, resolveVars, openVars, jobVars>>
othersOfOpen == <<dedupVars, freshVars, searchVars, retryVars, rateVars,
                  loopVars, extractVars, priceVars, cacheVars, closeVars,
                  productVars, resolveVars, pricesVars, jobVars>>
othersOfJob == <<dedupVars, freshVars, searchVars, retryVars, rateVars,
                 loopVars, extractVars, priceVars, cacheVars, closeVars,
                 productVars, resolveVars, pricesVars, openVars>>

(***************************************************************************)
(* Generic sequence helpers                                                *)
(***************************************************************************)
Range(s) == {s[i] : i \in 1..Len(s)}

\* All sequences over S of length 0..n
SeqsUpTo(S, n) == UNION {[1..k -> S] : k \in 0..n}

\* Python list.remove(x): drop the first element equal to x
RECURSIVE ListRemove(_, _)
ListRemove(s, x) ==
    IF s = <<>> THEN <<>>
    ELSE IF Head(s) = x THEN Tail(s)
    ELSE <<Head(s)>> \o ListRemove(Tail(s), x)

(***************************************************************************)
(* Product dictionaries.  A product is a record (a Python dict); a key the *)
(* dict does not carry is a field the record does not have.  Names are     *)
(* sequences of one-character strings, prices are in cents.                *)
(***************************************************************************)
Inf == 99999999                         \* float("inf")

\* str.lower() on the alphabet used by the names below
Lower(c) ==
    CASE c = "A" -> "a"
      [] c = "B" -> "b"
      [] c = "C" -> "c"
      [] OTHER   -> c

\* dict.get("name", "")
GetName(product) == IF "name" \in DOMAIN product THEN product.name ELSE <<>>

\* dict.get("price", float("inf"))
GetPrice(product) == IF "price" \in DOMAIN product THEN product.price ELSE Inf

\* product.get("name", "").lower().replace(" ", "").replace("-", "")
NormalizedKey(product) ==
    LET name  == GetName(product)
        lower == [i \in 1..Len(name) |-> Lower(name[i])]
        nosp  == SelectSeq(lower, LAMBDA c : c # " ")
    IN  SelectSeq(nosp, LAMBDA c : c # "-")

\* Variant: on replacement the head of `unique` is dropped instead of the
\* entry kept for the key (unique.pop(0) for unique.remove(seen[key])).
ReplaceDroppingHead(seen, unique, key, product) ==
    LET existing_price == GetPrice(seen[key])
        new_price      == GetPrice(product)
    IN  IF new_price < existing_price
        THEN [seen   |-> [seen EXCEPT ![key] = product],
              unique |-> Append(Tail(unique), product)]
        ELSE [seen |-> seen, unique |-> unique]

\* Variant: an equal price also replaces the kept entry (<= for <).
ReplaceIfNotDearer(seen, unique, key, product) ==
    LET existing_price == GetPrice(seen[key])
        new_price      == GetPrice(product)
    IN  IF new_price <= existing_price
        THEN [seen   |-> [seen EXCEPT ![key] = product],
              unique |-> Append(ListRemove(unique, seen[key]), product)]
        ELSE [seen |-> seen, unique |-> unique]

\* Variant: the cheaper duplicate takes the place of the entry it replaces
\* (unique[unique.index(seen[key])] = product for remove + append).
ReplaceInPlace(seen, unique, key, product) ==
    LET existing_price == GetPrice(seen[key])
        new_price      == GetPrice(product)
    IN  IF new_price < existing_price
        THEN [seen   |-> [seen EXCEPT ![key] = product],
              unique |-> [i \in 1..Len(unique) |->
                            IF unique[i] = seen[key] THEN product ELSE unique[i]]]
        ELSE [seen |-> seen, unique |-> unique]

\* The body of the `else` branch of the loop: replace the kept entry when the
\* new one is strictly cheaper.
ReplaceIfCheaper(seen, unique, key, product) ==
    LET existing_price == GetPrice(seen[key])
        new_price      == GetPrice(product)
    IN  IF new_price < existing_price
        THEN [seen   |-> [seen EXCEPT ![key] = product],
              unique |-> Append(ListRemove(unique, seen[key]), product)]
        ELSE [seen |-> seen, unique |-> unique]

\* One iteration of `for product in products`
DedupStep(st, product) ==
    LET key == NormalizedKey(product)
    IN  IF key \notin DOMAIN st.seen
        THEN [seen   |-> [k \in DOMAIN st.seen \cup {key} |->
                             IF k = key THEN product ELSE st.seen[k]],
              unique |-> Append(st.unique, product)]
        ELSE ReplaceIfCheaper(st.seen, st.unique, key, product)

RECURSIVE DedupLoop(_, _)
DedupLoop(st, products) ==
    IF products = <<>> THEN st
    ELSE DedupLoop(DedupStep(st, Head(products)), Tail(products))

\* SmartScraperService._deduplicate_products
DeduplicateProducts(products) ==
    DedupLoop([seen |-> <<>>, unique |-> <<>>], products).unique

(***************************************************************************)
(* Harness for the pure function: Init draws the argument, the actions     *)
(* apply the function once and then to its own result.                     *)
(***************************************************************************)
MaxLen == 3

DedupNames == { <<"A", "b">>, <<"a", "-", "b">>, <<"c">> }
DedupPrices == {28999, 29999}

DedupProducts ==
    [name : DedupNames, price : DedupPrices, store : {"amazon"}]
      \cup [name : DedupNames, store : {"db"}]
      \cup {[store |-> "db"]}

DedupIdle == /\ dpc = "idle" /\ dIn = <<>> /\ dOut = <<>> /\ dOut2 = <<>>

DedupInit ==
    /\ dpc = "ready"
    /\ dIn \in SeqsUpTo(DedupProducts, MaxLen)
    /\ dOut = <<>>
    /\ dOut2 = <<>>

DedupCall ==
    /\ dpc = "ready"
    /\ dOut' = DeduplicateProducts(dIn)
    /\ dpc' = "once"
    /\ UNCHANGED <<dIn, dOut2, othersOfDedup>>

DedupAgain ==
    /\ dpc = "once"
    /\ dOut2' = DeduplicateProducts(dOut)
    /\ dpc' = "twice"
    /\ UNCHANGED <<dIn, dOut, othersOfDedup>>

(***************************************************************************)
(* _filter_fresh_products.  Times are whole hours.  An ISO timestamp       *)
(* string is a record: the instant it denotes (t, in UTC hours) and its    *)
(* zone suffix: "" (naive, as datetime.utcnow().isoformat() prints it),    *)
(* "Z", or "+00:00" (as an aware UTC datetime prints it).                  *)
(***************************************************************************)
\* str.replace("Z", "+00:00")
ReplaceZ(stamp) ==
    IF stamp.suffix = "Z" THEN [stamp EXCEPT !.suffix = "+00:00"] ELSE stamp

\* datetime.fromisoformat: a suffix-less string parses to a naive datetime,
\* one with a UTC offset to an aware datetime; anything else raises
\* ValueError (raised = TRUE).
FromIsoformat(stamp) ==
    CASE stamp.suffix = ""       -> [raised |-> FALSE, t |-> stamp.t, aware |-> FALSE]
      [] stamp.suffix = "+00:00" -> [raised |-> FALSE, t |-> stamp.t, aware |-> TRUE]
      [] OTHER                   -> [raised |-> TRUE, t |-> 0, aware |-> FALSE]

\* datetime.utcnow() - timedelta(hours=cache_ttl_hours): a naive datetime
FreshCutoff(now, ttl) == [raised |-> FALSE, t |-> now - ttl, aware |-> FALSE]

\* `a > b` on datetimes: ordering a naive and an aware datetime raises
\* TypeError (raised = TRUE).
DatetimeGreater(a, b) ==
    IF a.aware # b.aware
    THEN [raised |-> TRUE, value |-> FALSE]
    ELSE [raised |-> FALSE, value |-> a.t > b.t]

\* The loop body's test: TRUE when the product is appended to `fresh`.  A
\* missing or None "updatedAt" skips the product; every exception inside the
\* try is swallowed by the bare `except: pass`.
IsFresh(product, fresh_cutoff) ==
    IF ~("updatedAt" \in DOMAIN product)
    THEN FALSE
    ELSE LET updated_at == FromIsoformat(ReplaceZ(product.updatedAt))
         IN  IF updated_at.raised THEN FALSE
             ELSE LET gt == DatetimeGreater(updated_at, fresh_cutoff)
                  IN  IF gt.raised THEN FALSE ELSE gt.value

\* SmartScraperService._filter_fresh_products
FilterFreshProducts(products, now, ttl) ==
    SelectSeq(products, LAMBDA product : IsFresh(product, FreshCutoff(now, ttl)))

NowHour == 100
AgeChoices == {1, 23, 24, 25}
TtlChoices == {2, 24}
Suffixes == {"", "Z", "+00:00"}

Stamps(now) == [t : {now - a : a \in AgeChoices}, suffix : Suffixes]

\* Rows as lib.database.search_products renders them; a row whose updatedAt
\* is None is a record without the field (dict.get gives None for both).
DbRows(now) ==
    [name : {<<"c">>}, updatedAt : Stamps(now)] \cup [name : {<<"c">>}]

FreshIdle ==
    /\ fpc = "idle" /\ cache_ttl_hours = 24 /\ utcnow = NowHour
    /\ fIn = <<>> /\ fOut = <<>>

FreshInit ==
    /\ fpc = "ready"
    /\ cache_ttl_hours \in TtlChoices
    /\ utcnow = NowHour
    /\ fIn \in SeqsUpTo(DbRows(NowHour), MaxLen)
    /\ fOut = <<>>

FilterFresh ==
    /\ fpc = "ready"
    /\ fOut' = FilterFreshProducts(fIn, utcnow, cache_ttl_hours)
    /\ fpc' = "done"
    /\ UNCHANGED <<cache_ttl_hours, utcnow, fIn, othersOfFresh>>

(***************************************************************************)
(* intelligent_search and the per-store scrape tasks.                      *)
(*                                                                         *)
(* A scraped card is a ScrapedProduct reduced to the fields the            *)
(* orchestration reads, [name, price]; the dict built for a saved product  *)
(* is [name, price, store, scraped_fresh].  The remaining dict entries     *)
(* (id, brand, currency, url, imageUrl, availability) are copied through   *)
(* and read by none of the steps below.                                    *)
(***************************************************************************)
StoreNames == {"amazon", "thomann"}         \* keys of self.scrapers
Resources == {"playwright", "browser", "context", "page"}

Min(a, b) == IF a < b THEN a ELSE b

\* needs_scraping: len(products) < max_results_per_store * len(stores) / 2
\* is a comparison with a true (float) quotient, i.e. 2 * len < max * n.
NeedsScrapingInt(force, nproducts, max_results, nstores) ==
    force \/ nproducts < (max_results * nstores) \div 2

NeedsScraping(force, nproducts, max_results, nstores) ==
    force \/ 2 * nproducts < max_results * nstores

\* sorted(products, key=lambda x: x.get("price", float("inf"))): stable
RECURSIVE InsertByPrice(_, _)
InsertByPrice(sorted, product) ==
    IF sorted = <<>> THEN <<product>>
    ELSE IF GetPrice(product) < GetPrice(Head(sorted))
         THEN <<product>> \o sorted
         ELSE <<Head(sorted)>> \o InsertByPrice(Tail(sorted), product)

RECURSIVE SortedByPrice(_)
SortedByPrice(products) ==
    IF products = <<>> THEN <<>>
    ELSE InsertByPrice(SortedByPrice(SubSeq(products, 1, Len(products) - 1)),
                       products[Len(products)])

\* BaseScraper.init_browser: the awaited steps in order; `failure` names the
\* step that raises ("ok": none).  Gives what has been acquired by then and
\* which fields of the scraper have been assigned.
InitBrowserSteps == <<"start", "launch", "new_context", "new_page", "headers">>
InitFailures == Range(InitBrowserSteps) \cup {"ok"}

InitBrowser(failure) ==
    CASE failure = "start"       -> [held |-> {}, browser |-> FALSE, page |-> FALSE]
      [] failure = "launch"      -> [held |-> {"playwright"},
                                     browser |-> FALSE, page |-> FALSE]
      [] failure = "new_context" -> [held |-> {"playwright", "browser"},
                                     browser |-> TRUE, page |-> FALSE]
      [] failure = "new_page"    -> [held |-> {"playwright", "browser", "context"},
                                     browser |-> TRUE, page |-> FALSE]
      [] OTHER                   -> [held |-> Resources,
                                     browser |-> TRUE, page |-> TRUE]

\* BaseScraper.close: page.close() then browser.close(), each only if the
\* field is set; `failure` names the call that raises ("ok": none).  Closing
\* the browser closes its contexts and pages.  The playwright driver was a
\* local of init_browser and is never stopped.
CloseFailures == {"ok", "page_close", "browser_close"}

Close(h, fields, failure) ==
    LET afterPage == IF fields.page /\ failure # "page_close"
                     THEN h \ {"page"} ELSE h
        pageRaised == fields.page /\ failure = "page_close"
        afterBrowser == IF ~pageRaised /\ fields.browser /\ failure # "browser_close"
                        THEN afterPage \ {"browser", "context", "page"}
                        ELSE afterPage
        browserRaised == ~pageRaised /\ fields.browser /\ failure = "browser_close"
    IN  [held |-> afterBrowser, raised |-> pageRaised \/ browserRaised]

\* The dict appended to products_saved for a saved card
SavedDict(scraped, store_name) ==
    [name |-> scraped.name, price |-> scraped.price,
     store |-> store_name, scraped_fresh |-> TRUE]

\* Variant: the dict is appended before the save is awaited, so a failing
\* save leaves it in the list.
AfterSaveAppendFirst(saved, scraped, store_name, saved_ok) ==
    Append(saved, SavedDict(scraped, store_name))

\* One iteration of `for scraped in scraped_products`: the append follows
\* the awaited save, an exception in the save skips it (`continue`).
AfterSave(saved, scraped, store_name, saved_ok) ==
    IF saved_ok THEN Append(saved, SavedDict(scraped, store_name)) ELSE saved

\* `for result in results` of _scrape_all_stores: lists are concatenated in
\* task order.  (Every task returns a list: _scrape_store catches Exception.)
RECURSIVE Flatten(_, _)
Flatten(order, res) ==
    IF order = <<>> THEN <<>>
    ELSE res[Head(order)] \o Flatten(Tail(order), res)

\* The stores for which _scrape_all_stores creates a task, in order
TaskOrder(ss) == SelectSeq(ss, LAMBDA s : s \in StoreNames)

(* ---- inputs ---- *)
MaxPerStore == 2
MaxDbRows == 2

StoreLists == { <<"amazon">>, <<"amazon", "thomann">> }

\* The calls made: a query with one store and with both, an empty query,
\* an empty store list, and a list naming a store self.scrapers has no
\* class for
SearchCalls ==
    [query : {<<"g">>}, stores : StoreLists]
      \cup { [query |-> <<>>, stores |-> <<"amazon">>],
             [query |-> <<"g">>, stores |-> <<>>],
             [query |-> <<"g">>, stores |-> <<"amazon", "ebay">>] }

\* stores = stores or list(self.scrapers.keys())
StoresOrDefault(arg) == IF arg = <<>> THEN <<"amazon", "thomann">> ELSE arg

\* The result page of a store: its cards in document order.  The first
\* cards of the two stores carry the same name up to case and hyphen.
CardPrice(s) == IF s = "amazon" THEN 29999 ELSE 28999
CardName(s, i) ==
    IF i = 1 THEN (IF s = "amazon" THEN <<"A", "b">> ELSE <<"a", "-", "b">>)
    ELSE [j \in 1..i |-> IF s = "amazon" THEN "c" ELSE "d"]
Page(s, n) == [i \in 1..n |-> [name |-> CardName(s, i), price |-> CardPrice(s)]]

\* The sub-lists of a list (order kept): what is left when some entries
\* are skipped
SubLists(list) ==
    { SelectSeq([i \in 1..Len(list) |-> IF i \in keep THEN <<list[i]>> ELSE <<>>],
                LAMBDA x : x # <<>>) : keep \in SUBSET (1..Len(list)) }

\* What search can return: of the first max_results cards, those whose
\* extraction gave a product, as ScrapedProducts
SearchResults(s, max_results) ==
    { [i \in 1..Len(l) |-> l[i][1]] : l \in SubLists(Page(s, max_results)) }

\* Rows the database may return to the call, as search_products renders
\* them: a fresh one with stored prices (its lowest under "cheapest_price";
\* the row has no "price" key) and a stale one without
SearchDbRows ==
    { [name |-> <<"a", " ", "b">>, cheapest_price |-> 9999,
       updatedAt |-> [t |-> NowHour - 1, suffix |-> ""]],
      [name |-> <<"e">>, updatedAt |-> [t |-> NowHour - 25, suffix |-> ""]] }

NoTasks == [s \in StoreNames |-> "none"]

SearchIdle ==
    /\ spc = "idle" /\ query = <<>> /\ stores_arg = <<>>
    /\ stores = <<>> /\ max_results_per_store = 0
    /\ force_scrape = FALSE /\ db_reads = 0
    /\ results = <<>> /\ merged = <<>>
    /\ tpc = NoTasks
    /\ held = [s \in StoreNames |-> {}]
    /\ scraper = [s \in StoreNames |-> [browser |-> FALSE, page |-> FALSE]]
    /\ scraped_products = [s \in StoreNames |-> <<>>]
    /\ next_save = [s \in StoreNames |-> 1]
    /\ products_saved = [s \in StoreNames |-> <<>>]
    /\ tfail = [s \in StoreNames |-> "none"]
    /\ search_failed = [s \in StoreNames |-> FALSE]
    /\ save_ok = [s \in StoreNames |-> <<>>]
    /\ task_result = [s \in StoreNames |-> <<>>]

\* The state on entry to intelligent_search: `results` as first assigned
SearchInit ==
    /\ spc = "start"
    /\ \E call \in SearchCalls :
          /\ query = call.query
          /\ stores_arg = call.stores
          /\ stores = StoresOrDefault(call.stores)
    /\ max_results_per_store \in 1..MaxPerStore
    /\ force_scrape \in BOOLEAN
    /\ db_reads = 0
    /\ results = [products |-> <<>>,
                  sources |-> [database |-> 0, scraped |-> 0],
                  stores_searched |-> stores,
                  total_count |-> 0,
                  scraping_triggered |-> <<>>]
    /\ merged = <<>>
    /\ tpc = NoTasks
    /\ held = [s \in StoreNames |-> {}]
    /\ scraper = [s \in StoreNames |-> [browser |-> FALSE, page |-> FALSE]]
    /\ scraped_products = [s \in StoreNames |-> <<>>]
    /\ next_save = [s \in StoreNames |-> 1]
    /\ products_saved = [s \in StoreNames |-> <<>>]
    /\ tfail = [s \in StoreNames |-> "none"]
    /\ search_failed = [s \in StoreNames |-> FALSE]
    /\ save_ok = [s \in StoreNames |-> <<>>]
    /\ task_result = [s \in StoreNames |-> <<>>]

(* ---- intelligent_search ---- *)

\* Variant: the database is read whatever force_scrape says
ReadsDatabaseAlways(force) == TRUE

\* `if not force_scrape:` guarding the database step
ReadsDatabase(force) == ~force

\* Step 1: unless force_scrape, read the database and keep the fresh rows
CheckDatabase ==
    /\ spc = "start"
    /\ IF ~ReadsDatabase(force_scrape)
       THEN UNCHANGED <<db_reads, results>>
       ELSE \E db_products \in
                 SeqsUpTo(SearchDbRows,
                          Min(MaxDbRows, max_results_per_store * Len(stores))) :
              LET fresh_products ==
                      FilterFreshProducts(db_products, utcnow, cache_ttl_hours)
              IN  /\ db_reads' = db_reads + 1
                  /\ results' =
                       [results EXCEPT
                          !.products = fresh_products,
                          !.sources.database = Len(fresh_products)]
    /\ spc' = "decide"
    /\ UNCHANGED <<query, stores_arg, stores, max_results_per_store, force_scrape, merged,
                   taskVars, othersOfSearch>>

\* Steps 2 and 3: decide, and start one task per store that has a scraper
DecideScraping ==
    /\ spc = "decide"
    /\ IF NeedsScraping(force_scrape, Len(results.products),
                        max_results_per_store, Len(stores))
       THEN /\ results' = [results EXCEPT !.scraping_triggered = stores]
            /\ tpc' = [s \in StoreNames |->
                         IF s \in Range(TaskOrder(stores)) THEN "open" ELSE "none"]
            /\ spc' = "gather"
       ELSE /\ spc' = "merge"
            /\ UNCHANGED <<results, tpc>>
    /\ UNCHANGED <<query, stores_arg, stores, max_results_per_store, force_scrape, db_reads, merged,
                   held, scraper, scraped_products, next_save, products_saved,
                   tfail, search_failed, save_ok, task_result, othersOfSearch>>

\* Variant: the wait ends with the first task that ends
\* (asyncio.wait(..., return_when=FIRST_COMPLETED) for gather)
FirstTaskReturned(tp) ==
    \/ \A s \in StoreNames : tp[s] = "none"
    \/ \E s \in StoreNames : tp[s] = "done"

\* await asyncio.gather(*tasks, return_exceptions=True) is over: every task
\* created has returned
AllTasksReturned(tp) == \A s \in StoreNames : tp[s] \in {"none", "done"}

\* asyncio.gather returns once every task has returned; flatten and extend
GatherResults ==
    /\ spc = "gather"
    /\ AllTasksReturned(tpc)
    /\ LET scraped == Flatten(TaskOrder(stores), task_result)
       IN  results' = [results EXCEPT
                          !.products = results.products \o scraped,
                          !.sources.scraped = Len(scraped)]
    /\ spc' = "merge"
    /\ UNCHANGED <<query, stores_arg, stores, max_results_per_store, force_scrape, db_reads, merged,
                   taskVars, othersOfSearch>>

\* Step 4: deduplicate, sort by price, count, return
MergeAndReturn ==
    /\ spc = "merge"
    /\ merged' = results.products
    /\ LET products == SortedByPrice(DeduplicateProducts(results.products))
       IN  results' = [results EXCEPT !.products = products,
                                      !.total_count = Len(products)]
    /\ spc' = "done"
    /\ UNCHANGED <<query, stores_arg, stores, max_results_per_store, force_scrape, db_reads,
                   taskVars, othersOfSearch>>

(* ---- _scrape_store(store_name), one task per store ---- *)

\* `async with scraper_class() as scraper`: __aenter__ runs init_browser.  If
\* it raises, __aexit__ is not run and the task's `except Exception` returns
\* [] with whatever init_browser had acquired.
TaskOpen(s) ==
    /\ tpc[s] = "open"
    /\ \E failure \in InitFailures :
         LET r == InitBrowser(failure)
         IN  /\ held' = [held EXCEPT ![s] = r.held]
             /\ scraper' = [scraper EXCEPT ![s] = [browser |-> r.browser,
                                                   page |-> r.page]]
             /\ IF failure = "ok"
                THEN /\ tpc' = [tpc EXCEPT ![s] = "search"]
                     /\ UNCHANGED <<tfail, task_result>>
                ELSE /\ tpc' = [tpc EXCEPT ![s] = "done"]
                     /\ tfail' = [tfail EXCEPT ![s] = "open"]
                     /\ task_result' = [task_result EXCEPT ![s] = <<>>]
    /\ UNCHANGED <<callVars, scraped_products, next_save, products_saved,
                   search_failed, save_ok, othersOfSearch>>

\* scraper.search(query, max_results): the products of the first max_results
\* cards, a card whose extraction fails being skipped; any other error inside
\* search is caught there and gives [].
TaskSearch(s) ==
    /\ tpc[s] = "search"
    /\ \/ /\ \E cards \in SearchResults(s, max_results_per_store) :
               scraped_products' = [scraped_products EXCEPT ![s] = cards]
          /\ UNCHANGED search_failed
       \/ /\ scraped_products' = [scraped_products EXCEPT ![s] = <<>>]
          /\ search_failed' = [search_failed EXCEPT ![s] = TRUE]
    /\ tpc' = [tpc EXCEPT ![s] = "connect"]
    /\ UNCHANGED <<callVars, held, scraper, next_save, products_saved, tfail,
                   save_ok, task_result, othersOfSearch>>

\* `async with PriceService() as price_service`: connect may raise
TaskConnect(s) ==
    /\ tpc[s] = "connect"
    /\ \/ /\ tpc' = [tpc EXCEPT ![s] = "save"]
          /\ UNCHANGED tfail
       \/ /\ tpc' = [tpc EXCEPT ![s] = "close"]
          /\ tfail' = [tfail EXCEPT ![s] = "connect"]
    /\ UNCHANGED <<callVars, held, scraper, scraped_products, next_save,
                   products_saved, search_failed, save_ok, task_result,
                   othersOfSearch>>

\* One iteration of the save loop
TaskSave(s) ==
    /\ tpc[s] = "save"
    /\ next_save[s] <= Len(scraped_products[s])
    /\ \E ok \in BOOLEAN :
         /\ products_saved' =
              [products_saved EXCEPT
                 ![s] = AfterSave(@, scraped_products[s][next_save[s]], s, ok)]
         /\ save_ok' = [save_ok EXCEPT ![s] = Append(@, ok)]
    /\ next_save' = [next_save EXCEPT ![s] = @ + 1]
    /\ UNCHANGED <<callVars, tpc, held, scraper, scraped_products, tfail,
                   search_failed, task_result, othersOfSearch>>

\* Leaving the PriceService block: disconnect may raise
TaskDisconnect(s) ==
    /\ tpc[s] = "save"
    /\ next_save[s] > Len(scraped_products[s])
    /\ \/ UNCHANGED tfail
       \/ tfail' = [tfail EXCEPT ![s] = "disconnect"]
    /\ tpc' = [tpc EXCEPT ![s] = "close"]
    /\ UNCHANGED <<callVars, held, scraper, scraped_products, next_save,
                   products_saved, search_failed, save_ok, task_result,
                   othersOfSearch>>

\* Leaving the scraper block: __aexit__ runs close().  The task returns
\* products_saved unless an exception is on its way out, then [].
TaskClose(s) ==
    /\ tpc[s] = "close"
    /\ \E failure \in CloseFailures :
         LET r == Close(held[s], scraper[s], failure)
             failed == IF tfail[s] = "none" /\ r.raised THEN "close" ELSE tfail[s]
         IN  /\ held' = [held EXCEPT ![s] = r.held]
             /\ tfail' = [tfail EXCEPT ![s] = failed]
             /\ task_result' = [task_result EXCEPT
                                  ![s] = IF failed = "none" THEN products_saved[s]
                                         ELSE <<>>]
    /\ tpc' = [tpc EXCEPT ![s] = "done"]
    /\ UNCHANGED <<callVars, scraper, scraped_products, next_save,
                   products_saved, search_failed, save_ok, othersOfSearch>>

(***************************************************************************)
(* BaseScraperImproved._retry_with_backoff and _rate_limit.                *)
(* Times are whole half seconds; random.uniform(0, 1) is one of 0, 0.5, 1. *)
(***************************************************************************)
MinRequestInterval == 2         \* self._min_request_interval = 1.0 s
BackoffJitterMax == 2           \* random.uniform(0, 1): at most 1 s
TimeoutMs == 30000              \* self.timeout
NoTime == -1                    \* None

\* self.timeout / 1000 seconds, in half seconds
TimeoutTicks == (TimeoutMs \div 1000) * 2

\* Variant: one iteration too many (range(self.max_retries + 1))
InRangeInclusive(i, n) == i <= n

\* `for attempt in range(self.max_retries)`: is i still in range
InRange(i, n) == i < n

\* Where the loop goes with loop variable i: another iteration, or past it
LoopHead(i, n) == IF InRange(i, n) THEN "rate_limit" ELSE "exhausted"

\* `if attempt < self.max_retries - 1`
AttemptsRemain(i, n) == i < n - 1

\* Variant: the exponent is off by one (2 ** (attempt + 1))
BackoffDelayNextPower(delay_s, i, jitter) == 2 * delay_s * 2 ^ (i + 1) + jitter

\* self.retry_delay * (2 ** attempt) + random.uniform(0, 1), in half seconds
BackoffDelay(delay_s, i, jitter) == 2 * delay_s * 2 ^ i + jitter

\* What _rate_limit sleeps at time t
RateLimitWait(t, last) ==
    IF last # NoTime /\ t - last < MinRequestInterval
    THEN MinRequestInterval - (t - last)
    ELSE 0

FailureOutcomes == {"timeout", "playwright_timeout", "exception"}

\* Variant: the cancellation is taken by an except clause like any other
\* error (except BaseException), so the loop goes on
AfterCancelCaught(awaiting) == "backoff"

\* Where the method goes when the task is cancelled at one of its awaits:
\* asyncio.CancelledError is no Exception, none of the three except clauses
\* takes it (the rate-limit wait and the attempt are inside the try, the
\* backoff sleep is outside) and it leaves _retry_with_backoff
AfterCancel(awaiting) == "cancelled"

\* The value assigned to last_error by the except clause taken
ErrorOf(outcome) ==
    CASE outcome = "timeout"            -> "ScraperTimeout: Request timeout"
      [] outcome = "playwright_timeout" -> "ScraperTimeout: Playwright timeout"
      [] OTHER                          -> "exception"

(* ---- inputs ---- *)
MaxRetries == 3
MaxRetryDelay == 2
OpDurations == {0, 1}           \* how long an invocation that ends by itself runs

RetryIdle ==
    /\ rpc = "idle" /\ max_retries = 0 /\ retry_delay = 0 /\ attempt = 0
    /\ calls = 0 /\ outcomes = <<>> /\ last_error = "None"
    /\ clock = 0 /\ last_request_time = NoTime
    /\ rl_waits = <<>> /\ backoffs = <<>>
    /\ retry_result = 0
    /\ retry_error = [attempts |-> 0, last |-> "None"]
    /\ cancelled_at = NoTime

\* On entry to _retry_with_backoff; the scraper may have made a request before
RetryInit ==
    /\ max_retries \in 0..MaxRetries
    /\ retry_delay \in 0..MaxRetryDelay
    /\ attempt = 0
    /\ rpc = LoopHead(0, max_retries)
    /\ calls = 0 /\ outcomes = <<>> /\ last_error = "None"
    /\ clock = 1
    /\ last_request_time \in {NoTime, 0, 1}
    /\ rl_waits = <<>> /\ backoffs = <<>>
    /\ retry_result = 0
    /\ retry_error = [attempts |-> 0, last |-> "None"]
    /\ cancelled_at = NoTime

\* await self._rate_limit(): sleep what is left of the minimum interval, then
\* stamp the request time.  A cancellation during the sleep propagates.
RateLimit ==
    /\ rpc = "rate_limit"
    /\ LET wait == RateLimitWait(clock, last_request_time)
       IN  \/ /\ clock' = clock + wait
              /\ last_request_time' = clock + wait
              /\ rl_waits' = Append(rl_waits, wait)
              /\ rpc' = "invoke"
              /\ UNCHANGED cancelled_at
           \/ /\ wait > 0
              /\ rpc' = AfterCancel("rate_limit")
              /\ cancelled_at' = calls
              /\ UNCHANGED <<clock, last_request_time, rl_waits>>
    /\ UNCHANGED <<max_retries, retry_delay, attempt, calls, outcomes,
                   last_error, backoffs, retry_result, retry_error,
                   othersOfRetry>>

\* await asyncio.wait_for(func(...), timeout): the invocation succeeds, times
\* out, raises, or the caller cancels it (CancelledError is not an Exception).
Invoke ==
    /\ rpc = "invoke"
    /\ calls' = calls + 1
    /\ \/ \E d \in OpDurations :
            /\ clock' = clock + d
            /\ outcomes' = Append(outcomes, "ok")
            /\ retry_result' = calls + 1
            /\ rpc' = "returned"
            /\ UNCHANGED <<last_error, cancelled_at>>
       \/ \E o \in FailureOutcomes, d \in OpDurations :
            /\ clock' = clock + (IF o = "timeout" THEN TimeoutTicks ELSE d)
            /\ outcomes' = Append(outcomes, o)
            /\ last_error' = ErrorOf(o)
            /\ rpc' = "backoff"
            /\ UNCHANGED <<retry_result, cancelled_at>>
       \/ /\ outcomes' = Append(outcomes, "cancelled")
          /\ rpc' = AfterCancel("invoke")
          /\ cancelled_at' = calls + 1
          /\ UNCHANGED <<clock, last_error, retry_result>>
    /\ UNCHANGED <<max_retries, retry_delay, attempt, last_request_time,
                   rl_waits, backoffs, retry_error, othersOfRetry>>

\* After a failed attempt: sleep the backoff delay if attempts remain, then
\* go to the next iteration.
Backoff ==
    /\ rpc = "backoff"
    /\ IF AttemptsRemain(attempt, max_retries)
       THEN \E jitter \in {0, BackoffJitterMax \div 2, BackoffJitterMax} :
              LET delay == BackoffDelay(retry_delay, attempt, jitter)
              IN  \/ /\ clock' = clock + delay
                     /\ backoffs' = Append(backoffs, delay)
                     /\ attempt' = attempt + 1
                     /\ rpc' = LoopHead(attempt + 1, max_retries)
                     /\ UNCHANGED cancelled_at
                  \/ /\ delay > 0
                     /\ rpc' = AfterCancel("backoff")
                     /\ cancelled_at' = calls
                     /\ UNCHANGED <<clock, backoffs, attempt>>
       ELSE /\ attempt' = attempt + 1
            /\ rpc' = LoopHead(attempt + 1, max_retries)
            /\ UNCHANGED <<clock, backoffs, cancelled_at>>
    /\ UNCHANGED <<max_retries, retry_delay, calls, outcomes, last_error,
                   last_request_time, rl_waits, retry_result, retry_error,
                   othersOfRetry>>

\* raise ScraperError(f"Failed after {self.max_retries} attempts: {last_error}")
RaiseScraperError ==
    /\ rpc = "exhausted"
    /\ retry_error' = [attempts |-> max_retries, last |-> last_error]
    /\ rpc' = "raised"
    /\ UNCHANGED <<max_retries, retry_delay, attempt, calls, outcomes,
                   last_error, clock, last_request_time, rl_waits, backoffs,
                   retry_result, cancelled_at, othersOfRetry>>

(***************************************************************************)
(* utils.get_rate_limit and utils.wait_for_rate_limit.  The call sleeps    *)
(* with time.sleep, which blocks the thread, so a call is one step.        *)
(* Times are whole half seconds; random.uniform(0, 0.5) is 0 or 0.5.       *)
(***************************************************************************)
DefaultRpm == 20                \* os.getenv(env_key, 20)
Minute == 120                   \* the 60 of `60 / rpm`, in half seconds
RateJitterMax == 1              \* random.uniform(0, 0.5): at most 0.5 s

\* int(os.getenv(f"RATE_LIMIT_{store_name.upper()}", 20))
GetRateLimit(env, store_name) ==
    IF store_name \in DOMAIN env THEN env[store_name] ELSE DefaultRpm

\* delay = 60 / rpm (rpm # 0)
RateDelay(rpm) == Minute \div rpm

\* Variant: the delay is left out of the sleep (time.sleep(jitter))
SleepJitterOnly(delay, jitter) == jitter

\* time.sleep(delay + jitter)
SleepTime(delay, jitter) == delay + jitter

(* ---- inputs ---- *)
MaxRateCalls == 3
MaxGap == 2
RpmChoices == {0, 60}

RateEnvs == UNION {[S -> RpmChoices] : S \in SUBSET StoreNames}

RateIdle == /\ rate_env = <<>> /\ wall = 0 /\ rate_log = <<>>

RateInit ==
    /\ rate_env \in RateEnvs
    /\ wall = 0
    /\ rate_log = <<>>

\* The time the last call ended (0 before any call)
LastEnd == IF rate_log = <<>> THEN 0 ELSE rate_log[Len(rate_log)].end

\* Time goes by between two calls
TimePasses ==
    /\ Len(rate_log) < MaxRateCalls
    /\ wall - LastEnd < MaxGap
    /\ wall' = wall + 1
    /\ UNCHANGED <<rate_env, rate_log, othersOfRate>>

\* wait_for_rate_limit(store_name): 60 / rpm raises ZeroDivisionError for
\* rpm = 0, otherwise the caller is blocked for delay + jitter.
WaitForRateLimit(store_name) ==
    /\ Len(rate_log) < MaxRateCalls
    /\ LET rpm == GetRateLimit(rate_env, store_name)
       IN  IF rpm = 0
           THEN /\ rate_log' = Append(rate_log,
                                  [origin |-> store_name, start |-> wall,
                                   end |-> wall, raised |-> TRUE])
                /\ UNCHANGED wall
           ELSE \E jitter \in 0..RateJitterMax :
                  LET slept == SleepTime(RateDelay(rpm), jitter)
                  IN  /\ wall' = wall + slept
                      /\ rate_log' = Append(rate_log,
                                        [origin |-> store_name, start |-> wall,
                                         end |-> wall + slept, raised |-> FALSE])
    /\ UNCHANGED <<rate_env, othersOfRate>>

(***************************************************************************)
(* The search card loops of the scrape tasks on the event loop.            *)
(* _scrape_all_stores starts one task per store with asyncio.gather; all   *)
(* tasks run on the one event-loop thread.  A task gives up the thread     *)
(* only at an await; wait_for_rate_limit sleeps with time.sleep, which is  *)
(* no await: the thread is held for the whole sleep.  A card step is what  *)
(* a task runs between two awaits: it resumes with the extracted card,     *)
(* appends the product and calls wait_for_rate_limit, then awaits the      *)
(* extraction of the next card.  Times are whole half seconds.             *)
(***************************************************************************)
NoSleep == [from |-> NoTime, to |-> NoTime]

\* The stores other than s whose task held the thread in time.sleep at
\* time t
SleepingAt(sleeps, s, t) ==
    {o \in StoreNames \ {s} : sleeps[o].from <= t /\ t < sleeps[o].to}

\* The tasks the event loop can resume at time t: their awaited extraction
\* has completed
Runnable(ready, t) == {s \in StoreNames : ready[s] # NoTime /\ ready[s] <= t}

(* ---- inputs ---- *)
IoDurations == {0, 1, 7}        \* how long an awaited extraction takes

LoopIdle ==
    /\ lnow = 0
    /\ lcards = [s \in StoreNames |-> 0]
    /\ lready = [s \in StoreNames |-> NoTime]
    /\ lsleep = [s \in StoreNames |-> NoSleep]
    /\ llog = <<>>

\* Both tasks have reached their card loop and await their first card
LoopInit ==
    /\ lnow = 0
    /\ lcards \in [StoreNames -> 1..MaxPerStore]
    /\ lready \in [StoreNames -> IoDurations]
    /\ lsleep = [s \in StoreNames |-> NoSleep]
    /\ llog = <<>>

\* The thread has nothing to run until the next extraction completes
LoopWaitsForIo ==
    /\ Runnable(lready, lnow) = {}
    /\ \E s \in StoreNames : lready[s] # NoTime
    /\ lnow' = lnow + 1
    /\ UNCHANGED <<lcards, lready, lsleep, llog, othersOfLoop>>

\* The event loop resumes the task of store s (ready callbacks run in the
\* order they became ready).  The card gave a product or not; with a product
\* the task calls wait_for_rate_limit and the thread sleeps; then the task
\* awaits its next card, if any.
CardStep(s) ==
    /\ s \in Runnable(lready, lnow)
    /\ \A o \in Runnable(lready, lnow) : lready[s] <= lready[o]
    /\ \E product \in BOOLEAN, jitter \in 0..RateJitterMax, d \in IoDurations :
         LET slept == IF product
                      THEN SleepTime(RateDelay(GetRateLimit(rate_env, s)), jitter)
                      ELSE 0
         IN  /\ ~product => jitter = 0
             /\ lcards[s] = 1 => d = 0
             /\ lnow' = lnow + slept
             /\ lsleep' = IF product
                           THEN [lsleep EXCEPT ![s] = [from |-> lnow,
                                                       to |-> lnow + slept]]
                           ELSE lsleep
             /\ llog' = Append(llog,
                           [store |-> s, ready |-> lready[s], ran |-> lnow,
                            slept |-> slept,
                            behind |-> SleepingAt(lsleep, s, lready[s])])
             /\ lcards' = [lcards EXCEPT ![s] = @ - 1]
             /\ lready' = [lready EXCEPT
                              ![s] = IF lcards[s] > 1 THEN lnow + slept + d
                                     ELSE NoTime]
    /\ UNCHANGED othersOfLoop

(***************************************************************************)
(* One call of an extractor: AmazonScraper / ThomannScraper search and     *)
(* get_product (the two classes have the same control flow).  A card is    *)
(* known by its index on the page and by what _extract_search_result gives *)
(* for it: "product", or "none" (no name, or an exception, which           *)
(* _extract_search_result catches itself).                                 *)
(***************************************************************************)
CardOutcomes == {"product", "none"}
NavigationOutcomes == {"ok", "goto_timeout", "selector_missing"}
DetailOutcomes == {"product", "malformed_price", "exception"}

Pending == [kind |-> "pending", items |-> <<>>]
Raised == [kind |-> "raised", items |-> <<>>]
ReturnedNone == [kind |-> "None", items |-> <<>>]
ReturnedList(items) == [kind |-> "list", items |-> items]
ReturnedProduct == [kind |-> "product", items |-> <<>>]

\* product_cards[:max_results]: the number of cards the loop visits
LoopLength(ncards, max_results) == Min(ncards, max_results)

\* Variant: a card that gives no product ends the loop (break for continue)
NextCardStopOnFailure(i, last, got_product) ==
    IF got_product THEN i + 1 ELSE last + 1

\* The loop goes on with the next card whatever the card gave
NextCard(i, last, got_product) == i + 1

\* What the `except Exception` around the body of each method returns
OnNavigationError(op) == IF op = "search" THEN ReturnedList(<<>>) ELSE ReturnedNone

(* ---- inputs ---- *)
MaxCards == 3

ExtractIdle ==
    /\ xpc = "idle" /\ xop = "search" /\ xpage_set = FALSE /\ xmax = 0
    /\ xcards = <<>> /\ xi = 1 /\ xproducts = <<>> /\ xnav = "none"
    /\ xcaught = 0 /\ xresult = Pending /\ xtrace = <<>>

\* On entry to search(query, max_results) or get_product(url); the session
\* may or may not have been opened before
ExtractInit ==
    /\ xpc = "open"
    /\ xop \in {"search", "get_product"}
    /\ xpage_set \in BOOLEAN
    /\ xmax \in 1..MaxCards
    /\ xcards \in SeqsUpTo(CardOutcomes, MaxCards)
    /\ xop = "get_product" => (xmax = 1 /\ xcards = <<>>)
    /\ xi = 1
    /\ xproducts = <<>>
    /\ xnav = "none"
    /\ xcaught = 0
    /\ xresult = Pending
    /\ xtrace = <<>>

\* `if not self.page: await self.init_browser()`, ahead of the try block:
\* what init_browser raises leaves the method
ExtractOpen ==
    /\ xpc = "open"
    /\ IF xpage_set
       THEN /\ xpc' = "navigate"
            /\ UNCHANGED <<xpage_set, xresult>>
       ELSE \E failure \in InitFailures :
              LET r == InitBrowser(failure)
              IN  /\ xpage_set' = r.page
                  /\ IF failure = "ok"
                     THEN xpc' = "navigate" /\ UNCHANGED xresult
                     ELSE xpc' = "done" /\ xresult' = Raised
    /\ UNCHANGED <<xop, xmax, xcards, xi, xproducts, xnav, xcaught, xtrace,
                   othersOfExtract>>

\* page.goto and wait_for_selector inside the try: a timeout or a missing
\* selector is caught by the method's `except Exception`
ExtractNavigate ==
    /\ xpc = "navigate"
    /\ \E nav \in NavigationOutcomes :
         /\ xnav' = nav
         /\ IF nav = "ok"
            THEN /\ xpc' = IF xop = "search" THEN "cards" ELSE "detail"
                 /\ UNCHANGED xresult
            ELSE /\ xpc' = "done"
                 /\ xresult' = OnNavigationError(xop)
    /\ xtrace' = Append(xtrace, "goto")
    /\ UNCHANGED <<xop, xpage_set, xmax, xcards, xi, xproducts, xcaught,
                   othersOfExtract>>

\* One iteration of `for card in product_cards[:max_results]`: a product is
\* appended, then wait_for_rate_limit is called; what that call raises
\* (ZeroDivisionError for a rate of 0) is caught by the loop's except, with
\* the product already in the list.
ExtractCard ==
    /\ xpc = "cards"
    /\ xi <= LoopLength(Len(xcards), xmax)
    /\ \E rate_limit_raises \in BOOLEAN :
         LET got_product == xcards[xi] = "product"
         IN  /\ ~got_product => ~rate_limit_raises
             /\ xproducts' = IF got_product THEN Append(xproducts, xi)
                              ELSE xproducts
             /\ xcaught' = IF rate_limit_raises THEN xcaught + 1 ELSE xcaught
             /\ xtrace' = IF got_product THEN Append(xtrace, "rate_limit")
                           ELSE xtrace
             /\ xi' = NextCard(xi, LoopLength(Len(xcards), xmax), got_product)
    /\ UNCHANGED <<xpc, xop, xpage_set, xmax, xcards, xnav, xresult,
                   othersOfExtract>>

\* `return products` after the loop
ExtractReturn ==
    /\ xpc = "cards"
    /\ xi > LoopLength(Len(xcards), xmax)
    /\ xresult' = ReturnedList(xproducts)
    /\ xpc' = "done"
    /\ UNCHANGED <<xop, xpage_set, xmax, xcards, xi, xproducts, xnav, xcaught,
                   xtrace, othersOfExtract>>

\* The body of get_product after navigation: a ScrapedProduct is returned
\* (a price that does not parse included), or an exception gives None
ExtractDetail ==
    /\ xpc = "detail"
    /\ \E out \in DetailOutcomes :
         xresult' = IF out = "exception" THEN ReturnedNone ELSE ReturnedProduct
    /\ xpc' = "done"
    /\ UNCHANGED <<xop, xpage_set, xmax, xcards, xi, xproducts, xnav, xcaught,
                   xtrace, othersOfExtract>>

(***************************************************************************)
(* utils.sanitize_price and the price the extractors build from it.        *)
(* A string is a sequence of one-character strings.  A float is a record   *)
(* [neg, mant, dec] standing for (-1)^neg * mant / 10^dec with no trailing *)
(* zero in the fraction (-0.0 is kept as 0.0, which it equals); None is    *)
(* NoPrice.  The strings drawn below are                                   *)
(* over digits, ".", ",", "-", " " and the currency marks, so float() never*)
(* meets an exponent, "inf", "nan" or an underscore.                       *)
(***************************************************************************)
Digits == {"0", "1", "2", "3", "4", "5", "6", "7", "8", "9"}

DigitVal(c) ==
    CASE c = "0" -> 0 [] c = "1" -> 1 [] c = "2" -> 2 [] c = "3" -> 3
      [] c = "4" -> 4 [] c = "5" -> 5 [] c = "6" -> 6 [] c = "7" -> 7
      [] c = "8" -> 8 [] OTHER -> 9

NoPrice == [kind |-> "None", neg |-> FALSE, mant |-> 0, dec |-> 0]

RECURSIVE Float(_, _, _)
Float(neg, mant, dec) ==
    IF dec > 0 /\ mant % 10 = 0 THEN Float(neg, mant \div 10, dec - 1)
    ELSE [kind |-> "float", neg |-> neg /\ mant # 0, mant |-> mant, dec |-> dec]

Zero == Float(FALSE, 0, 0)                      \* 0.0

\* str.replace(sub, ""): every non-overlapping occurrence, left to right
RECURSIVE RemoveAll(_, _)
RemoveAll(str, sub) ==
    IF Len(str) < Len(sub) THEN str
    ELSE IF SubSeq(str, 1, Len(sub)) = sub
         THEN RemoveAll(SubSeq(str, Len(sub) + 1, Len(str)), sub)
         ELSE <<Head(str)>> \o RemoveAll(Tail(str), sub)

\* str.replace(",", ".")
CommaToDot(str) == [i \in 1..Len(str) |-> IF str[i] = "," THEN "." ELSE str[i]]

\* str.strip()
RECURSIVE Strip(_)
Strip(str) ==
    IF str = <<>> THEN str
    ELSE IF Head(str) = " " THEN Strip(Tail(str))
    ELSE IF str[Len(str)] = " " THEN Strip(SubSeq(str, 1, Len(str) - 1))
    ELSE str

RECURSIVE IntOf(_)
IntOf(digits) ==
    IF digits = <<>> THEN 0
    ELSE 10 * IntOf(SubSeq(digits, 1, Len(digits) - 1))
           + DigitVal(digits[Len(digits)])

\* The index of the first "." of str (0: none)
RECURSIVE DotAt(_, _)
DotAt(str, i) ==
    IF i > Len(str) THEN 0 ELSE IF str[i] = "." THEN i ELSE DotAt(str, i + 1)

\* float(str): an optional sign, then digits with at most one "." and at
\* least one digit; anything else raises ValueError (NoPrice here, which is
\* what the except clause of sanitize_price returns)
ParseFloat(str) ==
    LET signed == str # <<>> /\ Head(str) \in {"-", "+"}
        body   == IF signed THEN Tail(str) ELSE str
        dot    == DotAt(body, 1)
        digits == SelectSeq(body, LAMBDA c : c # ".")
    IN  IF /\ digits # <<>>
           /\ \A i \in 1..Len(digits) : digits[i] \in Digits
           /\ Len(body) - Len(digits) <= 1
        THEN Float(signed /\ Head(str) = "-", IntOf(digits),
                   IF dot = 0 THEN 0 ELSE Len(body) - dot)
        ELSE NoPrice

\* utils.sanitize_price
SanitizePrice(str) ==
    IF str = <<>> THEN NoPrice
    ELSE LET clean == Strip(RemoveAll(RemoveAll(str, <<"€">>), <<"E", "U", "R">>))
             hasComma == \E i \in 1..Len(clean) : clean[i] = ","
             hasDot   == \E i \in 1..Len(clean) : clean[i] = "."
         IN  IF hasComma /\ hasDot
             THEN ParseFloat(CommaToDot(RemoveAll(clean, <<".">>)))
             ELSE IF hasComma THEN ParseFloat(CommaToDot(clean))
             ELSE ParseFloat(clean)

\* Python truthiness of an Optional[float]: None and 0.0 are false
Truthy(price) == price.kind = "float" /\ price.mant # 0

\* `price or 0.0` (AmazonScraper._extract_search_result and get_product,
\* with one price element on the card)
AmazonPrice(str) ==
    LET price == SanitizePrice(str) IN IF Truthy(price) THEN price ELSE Zero

\* `sanitize_price(price_text) if price_text else 0.0` (ThomannScraper)
ThomannPrice(str) == IF str # <<>> THEN SanitizePrice(str) ELSE Zero

(* ---- inputs ---- *)
MaxPriceLen == 3

PriceAlphabet == {"1", "0", ".", ",", "-", " ", "€"}

PriceExamples ==
    { <<"€", "1", ".", "2", "3", "4", ",", "5", "6">>,
      <<"4", "9", ",", "9", "0", " ", "€">>,
      <<"2", "9", ".", "9", "9">>,
      <<"4", "9", ".", "9", "0", " ", "E", "U", "R">> }

PriceIdle == /\ ppc = "idle" /\ price_str = <<>> /\ price_out = <<>>

PriceInit ==
    /\ ppc = "ready"
    /\ price_str \in PriceExamples \cup SeqsUpTo(PriceAlphabet, MaxPriceLen)
    /\ price_out = <<>>

ParsePrice ==
    /\ ppc = "ready"
    /\ price_out' = [sanitized |-> SanitizePrice(price_str),
                     amazon    |-> AmazonPrice(price_str),
                     thomann   |-> ThomannPrice(price_str)]
    /\ ppc' = "done"
    /\ UNCHANGED <<price_str, othersOfPrice>>

(***************************************************************************)
(* Cache operations: lib/cache.py CacheManager, services/cache_service.py  *)
(* CacheService, and the store-id lookup of PriceService.ensure_store.     *)
(* A command sent to a Redis server that is down raises; json.loads of a   *)
(* string that is no JSON raises.  The outcome of an operation is          *)
(*   raised      an exception left the operation                           *)
(*   value       what it returned ("None", "data", "store_id")             *)
(*   db_read     it went on to read the database                           *)
(*   written     it wrote to Redis                                         *)
(***************************************************************************)
CacheOps == {"CacheManager.get", "CacheManager.set", "CacheManager.delete",
             "CacheService.get_product", "CacheService.set_product",
             "PriceService.ensure_store"}

CacheReturn(value, db_read, written) ==
    [raised |-> FALSE, value |-> value, db_read |-> db_read, written |-> written]

CacheRaise(db_read) ==
    [raised |-> TRUE, value |-> "None", db_read |-> db_read, written |-> FALSE]

\* CacheManager.get: no client gives None; the Redis call and json.loads run
\* inside try / except Exception: return None
CacheManagerGet(client, server, data) ==
    IF ~client THEN CacheReturn("None", FALSE, FALSE)
    ELSE IF server = "down" THEN CacheReturn("None", FALSE, FALSE)
    ELSE IF data = "valid" THEN CacheReturn("data", FALSE, FALSE)
    ELSE CacheReturn("None", FALSE, FALSE)

\* CacheManager.set and CacheManager.delete: the same shape, nothing returned
CacheManagerWrite(client, server) ==
    CacheReturn("None", FALSE, client /\ server = "up")

\* CacheService.get_product: await self.redis.get(key), then json.loads,
\* with no try around either
CacheServiceGetProduct(server, data) ==
    IF server = "down" THEN CacheRaise(FALSE)
    ELSE IF data = "absent" THEN CacheReturn("None", FALSE, FALSE)
    ELSE IF data = "corrupt" THEN CacheRaise(FALSE)
    ELSE CacheReturn("data", FALSE, FALSE)

\* CacheService.set_product: await self.redis.setex(...), no try
CacheServiceSetProduct(server) ==
    IF server = "down" THEN CacheRaise(FALSE)
    ELSE CacheReturn("None", FALSE, TRUE)

\* PriceService.ensure_store: the cache is asked first, with no try; a hit
\* is returned as it is; a miss reads the database (creating the row if
\* needed) and writes the id back to the cache
EnsureStore(server, data) ==
    IF server = "down" THEN CacheRaise(FALSE)
    ELSE IF data # "absent" THEN CacheReturn("store_id", FALSE, FALSE)
    ELSE CacheReturn("store_id", TRUE, TRUE)

CacheIdle ==
    /\ cpc = "idle" /\ cache_op = "none" /\ backend = "up"
    /\ redis_client = FALSE /\ cached = "absent" /\ store_in_db = FALSE
    /\ cache_out = CacheReturn("None", FALSE, FALSE)

CacheInit ==
    /\ cpc = "ready"
    /\ cache_op \in CacheOps
    /\ backend \in {"up", "down"}
    /\ redis_client \in BOOLEAN
    /\ cached \in {"absent", "valid", "corrupt"}
    /\ store_in_db \in BOOLEAN
    /\ cache_out = CacheReturn("None", FALSE, FALSE)

\* One call of the operation cache_op
CacheCall ==
    /\ cpc = "ready"
    /\ cache_out' =
         CASE cache_op = "CacheManager.get" ->
                  CacheManagerGet(redis_client, backend, cached)
           [] cache_op \in {"CacheManager.set", "CacheManager.delete"} ->
                  CacheManagerWrite(redis_client, backend)
           [] cache_op = "CacheService.get_product" ->
                  CacheServiceGetProduct(backend, cached)
           [] cache_op = "CacheService.set_product" ->
                  CacheServiceSetProduct(backend)
           [] OTHER -> EnsureStore(backend, cached)
    /\ store_in_db' = (store_in_db \/ cache_out'.db_read)
    /\ cached' = IF cache_op = "CacheManager.delete" /\ cache_out'.written
                 THEN "absent"
                 ELSE IF cache_out'.written THEN "valid" ELSE cached
    /\ cpc' = "done"
    /\ UNCHANGED <<cache_op, backend, redis_client, othersOfCache>>

(***************************************************************************)
(* close() of a session: BaseScraper.close and BaseScraperImproved.close,  *)
(* called on a session that was never opened, whose init_browser failed    *)
(* part way, that is open, or that has been closed before.  Closing a      *)
(* resource the session no longer holds does nothing (Playwright takes a   *)
(* close of a closed page or browser as done).                             *)
(***************************************************************************)
NoFields == [playwright |-> FALSE, browser |-> FALSE, page |-> FALSE]

\* BaseScraperImproved.init_browser up to the step that raises: the driver
\* is kept in self.playwright
ImprovedInitFailures == {"start", "launch", "new_context", "new_page", "ok"}

InitBrowserImproved(failure) ==
    CASE failure = "start" ->
             [held |-> {}, fields |-> NoFields]
      [] failure = "launch" ->
             [held |-> {"playwright"},
              fields |-> [NoFields EXCEPT !.playwright = TRUE]]
      [] failure = "new_context" ->
             [held |-> {"playwright", "browser"},
              fields |-> [playwright |-> TRUE, browser |-> TRUE, page |-> FALSE]]
      [] failure = "new_page" ->
             [held |-> {"playwright", "browser", "context"},
              fields |-> [playwright |-> TRUE, browser |-> TRUE, page |-> FALSE]]
      [] OTHER ->
             [held |-> Resources,
              fields |-> [playwright |-> TRUE, browser |-> TRUE, page |-> TRUE]]

ImprovedCloseFailures == CloseFailures \cup {"playwright_stop"}

\* BaseScraperImproved.close: the three releases run in one try; the first
\* that raises ends the method (the exception is logged, not raised) and
\* the releases after it are not made.  A field is reset once its resource
\* has been released.
CloseImproved(h, fields, failure) ==
    LET pageFails    == fields.page /\ failure = "page_close"
        pageDone     == fields.page /\ ~pageFails
        browserRuns  == ~pageFails /\ fields.browser
        browserFails == browserRuns /\ failure = "browser_close"
        browserDone  == browserRuns /\ ~browserFails
        stopRuns     == ~pageFails /\ ~browserFails /\ fields.playwright
        stopFails    == stopRuns /\ failure = "playwright_stop"
        stopDone     == stopRuns /\ ~stopFails
        h1 == IF pageDone THEN h \ {"page"} ELSE h
        h2 == IF browserDone THEN h1 \ {"browser", "context", "page"} ELSE h1
        h3 == IF stopDone THEN h2 \ {"playwright"} ELSE h2
    IN  [held |-> h3,
         fields |-> [playwright |-> fields.playwright /\ ~stopDone,
                     browser    |-> fields.browser /\ ~browserDone,
                     page       |-> fields.page /\ ~pageDone],
         raised |-> FALSE,
         failed |-> pageFails \/ browserFails \/ stopFails]

\* BaseScraper.close on the session state: the fields stay as they are;
\* a release of something no longer held cannot fail
CloseBase(h, fields, failure) ==
    LET effective == IF failure = "page_close" /\ "page" \notin h THEN "ok"
                     ELSE IF failure = "browser_close" /\ "browser" \notin h
                     THEN "ok" ELSE failure
        r == Close(h, fields, effective)
    IN  [held |-> r.held, fields |-> fields, raised |-> r.raised,
         failed |-> r.raised]

(* ---- inputs ---- *)
MaxCloseCalls == 3

CloseIdle ==
    /\ session_class = "none" /\ session_held = {}
    /\ session_fields = NoFields /\ close_log = <<>>

\* A session of either class: never opened, or after init_browser, which
\* succeeded or failed at one of its steps
CloseInit ==
    /\ session_class \in {"BaseScraper", "BaseScraperImproved"}
    /\ \/ session_held = {} /\ session_fields = NoFields
       \/ /\ session_class = "BaseScraper"
          /\ \E failure \in InitFailures :
                LET r == InitBrowser(failure)
                IN  /\ session_held = r.held
                    /\ session_fields = [playwright |-> FALSE,
                                         browser |-> r.browser, page |-> r.page]
       \/ /\ session_class = "BaseScraperImproved"
          /\ \E failure \in ImprovedInitFailures :
                LET r == InitBrowserImproved(failure)
                IN  session_held = r.held /\ session_fields = r.fields
    /\ close_log = <<>>

\* One call of close()
CloseCall ==
    /\ Len(close_log) < MaxCloseCalls
    /\ \E failure \in ImprovedCloseFailures :
         /\ session_class = "BaseScraper" => failure \in CloseFailures
         /\ LET r == IF session_class = "BaseScraper"
                     THEN CloseBase(session_held, session_fields, failure)
                     ELSE CloseImproved(session_held, session_fields, failure)
            IN  /\ session_held' = r.held
                /\ session_fields' = r.fields
                /\ close_log' = Append(close_log,
                                   [before |-> session_held, after |-> r.held,
                                    raised |-> r.raised, failed |-> r.failed,
                                    page_failed |-> r.failed /\ failure = "page_close"])
    /\ UNCHANGED <<session_class, othersOfClose>>

(***************************************************************************)
(* The ScrapedProduct an extractor builds from one search card or one      *)
(* detail page.  The card is known by the elements its selectors find: the *)
(* first price element, the ".a-price-whole" and ".a-price-fraction"       *)
(* elements (Amazon), the link's href, a sold-out / "nicht verfügbar"      *)
(* element and a description element.  The name is present (a card without *)
(* one gives no product).  ScrapedProduct is a plain dataclass: it takes   *)
(* the values as given.                                                    *)
(***************************************************************************)
Extractors == {"amazon.search", "thomann.search",
               "amazon.get_product", "thomann.get_product"}

NoElem == [found |-> FALSE, text |-> <<>>]          \* query_selector: None
Elem(str) == [found |-> TRUE, text |-> str]

\* sanitize_price(await elem.inner_text()) for an element that was found
ElemPrice(elem) == SanitizePrice(elem.text)

\* `price and price > 0`
Positive(price) == Truthy(price) /\ ~price.neg

\* `price or 0.0`
OrZero(price) == IF Truthy(price) THEN price ELSE Zero

\* href -> url: a relative href is prefixed by base_url; then `url or ''`
UrlOf(href) ==
    CASE href = "None"  -> ""
      [] href = ""      -> ""
      [] href = "/p/1"  -> "https://store/p/1"
      [] OTHER          -> href

\* AmazonScraper._extract_search_result: the selector loop keeps the last
\* price it parsed and stops at a positive one; whole + fraction are tried
\* when the price is still None or 0.0
AmazonSearchProduct(c) ==
    LET p1 == IF c.price_elem.found THEN ElemPrice(c.price_elem) ELSE NoPrice
        p2 == IF Positive(p1) \/ ~c.whole_elem.found THEN p1
              ELSE ElemPrice(c.whole_elem)
        p3 == IF ~Truthy(p2) /\ c.whole_elem.found /\ c.fraction_elem.found
              THEN SanitizePrice(c.whole_elem.text \o c.fraction_elem.text)
              ELSE p2
    IN  [returned |-> TRUE,
         price |-> OrZero(p3),
         availability |-> p3.kind = "float" /\ Positive(p3),
         url |-> UrlOf(c.href)]

\* ThomannScraper._extract_search_result
ThomannSearchProduct(c) ==
    [returned |-> TRUE,
     price |-> IF c.price_elem.found /\ c.price_elem.text # <<>>
               THEN ElemPrice(c.price_elem) ELSE Zero,
     availability |-> ~c.sold_out,
     url |-> UrlOf(c.href)]

NoProduct == [returned |-> FALSE, price |-> NoPrice, availability |-> FALSE,
              url |-> ""]

\* AmazonScraper.get_product: the loop stops at the first truthy price; the
\* url is the argument (the page was reached with it)
AmazonDetailProduct(c) ==
    LET p1 == IF c.price_elem.found THEN ElemPrice(c.price_elem) ELSE NoPrice
        p2 == IF Truthy(p1) \/ ~c.whole_elem.found THEN p1
              ELSE ElemPrice(c.whole_elem)
    IN  [returned |-> TRUE,
         price |-> OrZero(p2),
         availability |-> ~c.sold_out,
         url |-> "https://store/p/1"]

\* ThomannScraper.get_product: with a description element,
\* `await desc_elem.inner_text()[:500]` subscripts a coroutine, the
\* TypeError is caught and None is returned
ThomannDetailProduct(c) ==
    IF c.description THEN NoProduct
    ELSE [returned |-> TRUE,
          price |-> IF c.price_elem.found /\ c.price_elem.text # <<>>
                    THEN ElemPrice(c.price_elem) ELSE Zero,
          availability |-> ~c.sold_out,
          url |-> "https://store/p/1"]

ExtractProduct(extractor, c) ==
    CASE extractor = "amazon.search"      -> AmazonSearchProduct(c)
      [] extractor = "thomann.search"     -> ThomannSearchProduct(c)
      [] extractor = "amazon.get_product" -> AmazonDetailProduct(c)
      [] OTHER                            -> ThomannDetailProduct(c)

(* ---- inputs ---- *)
CardTexts == {<<"1">>, <<"-", "1">>, <<",">>, <<"0">>, <<>>}
CardElems == {NoElem} \cup {Elem(t) : t \in CardTexts}
Hrefs == {"None", "", "/p/1", "https://store/p/1"}
Cards == [price_elem : CardElems, whole_elem : CardElems,
          fraction_elem : {NoElem, Elem(<<"1">>)}, href : Hrefs,
          sold_out : BOOLEAN, description : BOOLEAN]

ProductIdle ==
    /\ kpc = "idle" /\ kextractor = "none" /\ kcard = <<>> /\ kout = NoProduct

ProductInit ==
    /\ kpc = "ready"
    /\ kextractor \in Extractors
    /\ kcard \in Cards
    /\ kout = NoProduct

ProductExtract ==
    /\ kpc = "ready"
    /\ kout' = ExtractProduct(kextractor, kcard)
    /\ kpc' = "done"
    /\ UNCHANGED <<kextractor, kcard, othersOfProduct>>

(***************************************************************************)
(* Store resolution by domain: PriceService.ensure_store (Redis get,       *)
(* find_first, create, Redis setex) and the find-or-create of the          *)
(* scheduled scrape_store job (find_first, create).  Every step is an      *)
(* await, so the steps of concurrent callers interleave.  A Store row is   *)
(* known by its id.  Whether the database enforces a unique domain is not  *)
(* decided by this code: both are modelled, and under the constraint a     *)
(* create of a second row raises.                                          *)
(***************************************************************************)
Callers == {1, 2}
Resolvers == {"ensure_store", "scrape_store"}

\* The id a new row gets
NewStoreId(rows) == Cardinality(rows) + 1

\* store.create(...): the row is added, or the unique constraint refuses it
CreateStore(rows, unique) ==
    IF unique /\ rows # {}
    THEN [raised |-> TRUE, rows |-> rows, id |-> 0]
    ELSE [raised |-> FALSE, rows |-> rows \cup {NewStoreId(rows)},
          id |-> NewStoreId(rows)]

ResolveIdle ==
    /\ epc = [c \in Callers |-> "idle"]
    /\ resolver = [c \in Callers |-> "none"]
    /\ domain_unique = FALSE
    /\ store_rows = {}
    /\ store_cache = 0
    /\ estore = [c \in Callers |-> 0]
    /\ eresult = [c \in Callers |-> 0]

\* Two callers about to resolve the same domain; the Store row exists
\* already or not, and nothing is cached yet
ResolveInit ==
    /\ resolver \in [Callers -> Resolvers]
    /\ epc = [c \in Callers |->
                IF resolver[c] = "ensure_store" THEN "cache_get" ELSE "find"]
    /\ domain_unique \in BOOLEAN
    /\ store_rows \in {{}, {1}}
    /\ store_cache = 0
    /\ estore = [c \in Callers |-> 0]
    /\ eresult = [c \in Callers |-> 0]

\* ensure_store: cached = await self.cache.redis.get(cache_key)
ResolveCacheGet(c) ==
    /\ epc[c] = "cache_get"
    /\ IF store_cache # 0
       THEN /\ eresult' = [eresult EXCEPT ![c] = store_cache]
            /\ epc' = [epc EXCEPT ![c] = "done"]
       ELSE /\ epc' = [epc EXCEPT ![c] = "find"]
            /\ UNCHANGED eresult
    /\ UNCHANGED <<resolver, domain_unique, store_rows, store_cache, estore,
                   othersOfResolve>>

\* store = await ...store.find_first(where={'domain': ...}): a row with the
\* domain, or None
ResolveFind(c) ==
    /\ epc[c] = "find"
    /\ IF store_rows = {}
       THEN /\ epc' = [epc EXCEPT ![c] = "create"]
            /\ UNCHANGED <<estore, eresult>>
       ELSE \E id \in store_rows :
              /\ estore' = [estore EXCEPT ![c] = id]
              /\ IF resolver[c] = "ensure_store"
                 THEN /\ epc' = [epc EXCEPT ![c] = "cache_set"]
                      /\ UNCHANGED eresult
                 ELSE /\ epc' = [epc EXCEPT ![c] = "done"]
                      /\ eresult' = [eresult EXCEPT ![c] = id]
    /\ UNCHANGED <<resolver, domain_unique, store_rows, store_cache,
                   othersOfResolve>>

\* `if not store: store = await ...store.create(...)`.  An exception leaves
\* ensure_store; in the job it is taken by the except of the product loop.
ResolveCreate(c) ==
    /\ epc[c] = "create"
    /\ LET r == CreateStore(store_rows, domain_unique)
       IN  /\ store_rows' = r.rows
           /\ IF r.raised
              THEN /\ eresult' = [eresult EXCEPT ![c] = -1]
                   /\ epc' = [epc EXCEPT ![c] = "done"]
                   /\ UNCHANGED estore
              ELSE /\ estore' = [estore EXCEPT ![c] = r.id]
                   /\ IF resolver[c] = "ensure_store"
                      THEN /\ epc' = [epc EXCEPT ![c] = "cache_set"]
                           /\ UNCHANGED eresult
                      ELSE /\ epc' = [epc EXCEPT ![c] = "done"]
                           /\ eresult' = [eresult EXCEPT ![c] = r.id]
    /\ UNCHANGED <<resolver, domain_unique, store_cache, othersOfResolve>>

\* ensure_store: await self.cache.redis.setex(cache_key, 86400, store.id);
\* return store.id
ResolveCacheSet(c) ==
    /\ epc[c] = "cache_set"
    /\ store_cache' = estore[c]
    /\ eresult' = [eresult EXCEPT ![c] = estore[c]]
    /\ epc' = [epc EXCEPT ![c] = "done"]
    /\ UNCHANGED <<resolver, domain_unique, store_rows, estore,
                   othersOfResolve>>

(***************************************************************************)
(* The Price table.  PriceService.save_scraped_product records a price     *)
(* with price.create; the scheduled scrape_store job records it with       *)
(* price.upsert keyed by (productId, storeId): the row of the pair is      *)
(* updated when there is one, created otherwise.  One store; a row is      *)
(* [product, price, scrapedAt].                                            *)
(***************************************************************************)
Savers == {"save_scraped_product", "scrape_store"}
SavedProducts == {1, 2}
SavedPrices == {100, 200}
MaxSaves == 3

\* price.create(data=...)
PriceCreate(rows, product, price, now) ==
    Append(rows, [product |-> product, price |-> price, scrapedAt |-> now])

RowsOfPair(rows, product) == {i \in 1..Len(rows) : rows[i].product = product}

\* price.upsert(where={productId, storeId}, data={create, update}): `update`
\* sets price, availability and scrapedAt of the row found
PriceUpsert(rows, product, price, now) ==
    IF RowsOfPair(rows, product) = {} THEN {PriceCreate(rows, product, price, now)}
    ELSE { [rows EXCEPT ![i].price = price, ![i].scrapedAt = now] :
             i \in RowsOfPair(rows, product) }

NoSave == [by |-> "none", before |-> <<>>]

PricesIdle == /\ price_rows = <<>> /\ price_saves = -1 /\ last_save = NoSave

PricesInit == /\ price_rows = <<>> /\ price_saves = 0 /\ last_save = NoSave

\* One successful save of a scraped product
SavePrice ==
    /\ price_saves \in 0..(MaxSaves - 1)
    /\ \E by \in Savers, product \in SavedProducts, price \in SavedPrices :
          /\ price_rows' \in
                (IF by = "save_scraped_product"
                 THEN {PriceCreate(price_rows, product, price, price_saves + 1)}
                 ELSE PriceUpsert(price_rows, product, price, price_saves + 1))
          /\ last_save' = [by |-> by, before |-> price_rows]
    /\ price_saves' = price_saves + 1
    /\ UNCHANGED othersOfPrices

(***************************************************************************)
(* init_browser called again after a failure.  __aenter__ calls it on the  *)
(* new object; search and get_product call it whenever self.page is not    *)
(* set.  BaseScraper has no playwright field (the driver is a local).      *)
(***************************************************************************)
\* BaseScraperImproved.init_browser on a session: `if self.playwright:
\* return`, else the acquisition up to the step that raises; the except
\* clause re-raises as ScraperError and resets nothing
InitBrowserImprovedOn(h, fields, failure) ==
    IF fields.playwright
    THEN [held |-> h, fields |-> fields, raised |-> FALSE, early |-> TRUE]
    ELSE LET r == InitBrowserImproved(failure)
         IN  [held |-> h \cup r.held, fields |-> r.fields,
              raised |-> failure # "ok", early |-> FALSE]

\* BaseScraper.init_browser on a session: no early return; self.browser
\* and self.page are assigned as far as the acquisition gets
InitBrowserBaseOn(h, fields, failure) ==
    LET r == InitBrowser(failure)
    IN  [held |-> h \cup r.held,
         fields |-> [playwright |-> FALSE,
                     browser |-> fields.browser \/ r.browser,
                     page |-> fields.page \/ r.page],
         raised |-> failure # "ok", early |-> FALSE]

(* ---- inputs ---- *)
MaxOpenCalls == 4

OpenIdle ==
    /\ open_class = "none" /\ open_held = {} /\ open_fields = NoFields
    /\ open_log = <<>>

\* A new session object
OpenInit ==
    /\ open_class \in {"BaseScraper", "BaseScraperImproved"}
    /\ open_held = {}
    /\ open_fields = NoFields
    /\ open_log = <<>>

\* One init_browser call on a session whose page is not set
OpenCall ==
    /\ Len(open_log) < MaxOpenCalls
    /\ ~open_fields.page
    /\ \E failure \in (IF open_class = "BaseScraper" THEN InitFailures
                       ELSE ImprovedInitFailures) :
         LET r == IF open_class = "BaseScraper"
                  THEN InitBrowserBaseOn(open_held, open_fields, failure)
                  ELSE InitBrowserImprovedOn(open_held, open_fields, failure)
         IN  /\ open_held' = r.held
             /\ open_fields' = r.fields
             /\ open_log' = Append(open_log,
                                   [raised |-> r.raised, early |-> r.early,
                                    held |-> r.held, fields |-> r.fields])
    /\ UNCHANGED <<open_class, othersOfOpen>>

(***************************************************************************)
(* jobs/scraper_jobs.py scrape_store: a scraper is constructed for a known *)
(* store (no browser yet: search opens it), then for every query the       *)
(* search and the save of each product run inside their own try/except     *)
(* with `continue`; the outer try has `finally: await scraper.close()`.    *)
(* A cancellation is no Exception: it passes both except clauses and       *)
(* reaches the finally.  A query's log entry is [query, found, taken,      *)
(* saved]: found = -1 when the search raised, taken counts the products    *)
(* the save loop took up, saved those whose save succeeded.                *)
(***************************************************************************)
JobStores == {"amazon", "Thomann", "ebay"}

\* store_name.lower() on the names above
JobLower(name) == IF name = "Thomann" THEN "thomann" ELSE name

\* `if ... == 'amazon' / elif ... == 'thomann' / else: return`
KnownStore(name) == JobLower(name) \in StoreNames

\* Variant: an error in one query ends the loop (break for continue)
AfterQueryErrorBreak(q, n) == n + 1

\* `except Exception: ... continue` of the query loop: on to the next query
AfterQueryError(q, n) == q + 1

(* ---- inputs ---- *)
MaxQueries == 2
MaxJobProducts == 2

JobIdle ==
    /\ jpc = "idle" /\ job_store = "none" /\ job_queries = 0 /\ jq = 0
    /\ jfound = 0 /\ jp = 0 /\ jsaved = 0 /\ job_browser = FALSE
    /\ close_calls = 0
    /\ job_log = <<>> /\ job_cancelled = FALSE

JobInit ==
    /\ jpc = "start"
    /\ job_store \in JobStores
    /\ job_queries \in 0..MaxQueries
    /\ jq = 0 /\ jfound = 0 /\ jp = 0 /\ jsaved = 0
    /\ job_browser = FALSE
    /\ close_calls = 0
    /\ job_log = <<>>
    /\ job_cancelled = FALSE

\* Lines 23-31: construct the scraper, or return for an unknown store
JobStart ==
    /\ jpc = "start"
    /\ IF KnownStore(job_store)
       THEN jpc' = "query" /\ jq' = 1
       ELSE jpc' = "done" /\ UNCHANGED jq
    /\ UNCHANGED <<job_store, job_queries, jfound, jp, jsaved, job_browser,
                   close_calls, job_log, job_cancelled, othersOfJob>>

\* products = await scraper.search(query, max_results=10): search opens the
\* browser when the page is not set, and returns a list; what init_browser
\* raises escapes search and is taken by the query's except clause; a
\* cancellation goes to the finally
JobSearch ==
    /\ jpc = "query"
    /\ jq <= job_queries
    /\ \/ \E n \in 0..MaxJobProducts :
            /\ jfound' = n
            /\ jp' = 1
            /\ jsaved' = 0
            /\ jpc' = "product"
            /\ job_browser' = TRUE
            /\ UNCHANGED <<jq, job_log, job_cancelled>>
       \/ \E acquired \in BOOLEAN :
            /\ job_browser' = (job_browser \/ acquired)
            /\ job_log' = Append(job_log, [query |-> jq, found |-> -1,
                                           taken |-> 0, saved |-> 0])
            /\ jq' = AfterQueryError(jq, job_queries)
            /\ UNCHANGED <<jpc, jfound, jp, jsaved, job_cancelled>>
       \/ /\ job_cancelled' = TRUE
          /\ jpc' = "close"
          /\ UNCHANGED <<jq, jfound, jp, jsaved, job_browser, job_log>>
    /\ UNCHANGED <<job_store, job_queries, close_calls, othersOfJob>>

\* One iteration of `for product_data in products`: the find / create /
\* upsert calls succeed, or one raises and the except clause continues
JobSave ==
    /\ jpc = "product"
    /\ jp <= jfound
    /\ \/ \E saved \in BOOLEAN :
            /\ jp' = jp + 1
            /\ jsaved' = IF saved THEN jsaved + 1 ELSE jsaved
            /\ UNCHANGED <<jpc, job_cancelled>>
       \/ /\ job_cancelled' = TRUE
          /\ jpc' = "close"
          /\ UNCHANGED <<jp, jsaved>>
    /\ UNCHANGED <<job_store, job_queries, jq, jfound, job_browser,
                   close_calls, job_log, othersOfJob>>

\* After the products: await cache.delete(cache_key), which raises nothing,
\* and on to the next query
JobInvalidate ==
    /\ jpc = "product"
    /\ jp > jfound
    /\ job_log' = Append(job_log, [query |-> jq, found |-> jfound,
                                   taken |-> jp - 1, saved |-> jsaved])
    /\ jq' = jq + 1
    /\ jpc' = "query"
    /\ UNCHANGED <<job_store, job_queries, jfound, jp, jsaved, job_browser,
                   close_calls, job_cancelled, othersOfJob>>

\* The loop is over: on to the finally
JobLoopEnd ==
    /\ jpc = "query"
    /\ jq > job_queries
    /\ jpc' = "close"
    /\ UNCHANGED <<job_store, job_queries, jq, jfound, jp, jsaved,
                   job_browser, close_calls, job_log, job_cancelled,
                   othersOfJob>>

\* finally: await scraper.close().  Whether it returns or raises, the job
\* ends here.
JobClose ==
    /\ jpc = "close"
    /\ close_calls' = close_calls + 1
    /\ jpc' = "done"
    /\ UNCHANGED <<job_store, job_queries, jq, jfound, jp, jsaved,
                   job_browser, job_log, job_cancelled, othersOfJob>>

(***************************************************************************)
(* Specifications                                                          *)
(***************************************************************************)
InitDedup ==
    /\ DedupInit /\ FreshIdle /\ SearchIdle /\ RetryIdle /\ RateIdle
    /\ LoopIdle /\ ExtractIdle /\ PriceIdle /\ CacheIdle /\ CloseIdle
    /\ ProductIdle /\ ResolveIdle /\ PricesIdle /\ OpenIdle /\ JobIdle
NextDedup == DedupCall \/ DedupAgain
SpecDedup == InitDedup /\ [][NextDedup]_vars

InitFresh ==
    /\ FreshInit /\ DedupIdle /\ SearchIdle /\ RetryIdle /\ RateIdle
    /\ LoopIdle /\ ExtractIdle /\ PriceIdle /\ CacheIdle /\ CloseIdle
    /\ ProductIdle /\ ResolveIdle /\ PricesIdle /\ OpenIdle /\ JobIdle
NextFresh == FilterFresh
SpecFresh == InitFresh /\ [][NextFresh]_vars

InitSearch ==
    /\ SearchInit /\ DedupIdle /\ FreshIdle /\ RetryIdle /\ RateIdle
    /\ LoopIdle /\ ExtractIdle /\ PriceIdle /\ CacheIdle /\ CloseIdle
    /\ ProductIdle /\ ResolveIdle /\ PricesIdle /\ OpenIdle /\ JobIdle
NextSearch ==
    \/ CheckDatabase
    \/ DecideScraping
    \/ \E s \in StoreNames : TaskOpen(s)
    \/ \E s \in StoreNames : TaskSearch(s)
    \/ \E s \in StoreNames : TaskConnect(s)
    \/ \E s \in StoreNames : TaskSave(s)
    \/ \E s \in StoreNames : TaskDisconnect(s)
    \/ \E s \in StoreNames : TaskClose(s)
    \/ GatherResults
    \/ MergeAndReturn
SpecSearch == InitSearch /\ [][NextSearch]_vars

InitRetry ==
    /\ RetryInit /\ DedupIdle /\ FreshIdle /\ SearchIdle /\ RateIdle
    /\ LoopIdle /\ ExtractIdle /\ PriceIdle /\ CacheIdle /\ CloseIdle
    /\ ProductIdle /\ ResolveIdle /\ PricesIdle /\ OpenIdle /\ JobIdle
NextRetry == RateLimit \/ Invoke \/ Backoff \/ RaiseScraperError
SpecRetry == InitRetry /\ [][NextRetry]_vars

InitRate ==
    /\ RateInit /\ DedupIdle /\ FreshIdle /\ SearchIdle /\ RetryIdle
    /\ LoopIdle /\ ExtractIdle /\ PriceIdle /\ CacheIdle /\ CloseIdle
    /\ ProductIdle /\ ResolveIdle /\ PricesIdle /\ OpenIdle /\ JobIdle
NextRate == TimePasses \/ \E o \in StoreNames : WaitForRateLimit(o)
SpecRate == InitRate /\ [][NextRate]_vars

InitLoop ==
    /\ LoopInit /\ DedupIdle /\ FreshIdle /\ SearchIdle /\ RetryIdle
    /\ RateIdle /\ ExtractIdle /\ PriceIdle /\ CacheIdle /\ CloseIdle
    /\ ProductIdle /\ ResolveIdle /\ PricesIdle /\ OpenIdle /\ JobIdle
NextLoop == LoopWaitsForIo \/ \E s \in StoreNames : CardStep(s)
SpecLoop == InitLoop /\ [][NextLoop]_vars

InitExtract ==
    /\ ExtractInit /\ DedupIdle /\ FreshIdle /\ SearchIdle /\ RetryIdle
    /\ RateIdle /\ LoopIdle /\ PriceIdle /\ CacheIdle /\ CloseIdle
    /\ ProductIdle /\ ResolveIdle /\ PricesIdle /\ OpenIdle /\ JobIdle
NextExtract ==
    \/ ExtractOpen
    \/ ExtractNavigate
    \/ ExtractCard
    \/ ExtractReturn
    \/ ExtractDetail
SpecExtract == InitExtract /\ [][NextExtract]_vars

InitPrice ==
    /\ PriceInit /\ DedupIdle /\ FreshIdle /\ SearchIdle /\ RetryIdle
    /\ RateIdle /\ LoopIdle /\ ExtractIdle /\ CacheIdle /\ CloseIdle
    /\ ProductIdle /\ ResolveIdle /\ PricesIdle /\ OpenIdle /\ JobIdle
NextPrice == ParsePrice
SpecPrice == InitPrice /\ [][NextPrice]_vars

InitCache ==
    /\ CacheInit /\ DedupIdle /\ FreshIdle /\ SearchIdle /\ RetryIdle
    /\ RateIdle /\ LoopIdle /\ ExtractIdle /\ PriceIdle /\ CloseIdle
    /\ ProductIdle /\ ResolveIdle /\ PricesIdle /\ OpenIdle /\ JobIdle
NextCache == CacheCall
SpecCache == InitCache /\ [][NextCache]_vars

InitClose ==
    /\ CloseInit /\ DedupIdle /\ FreshIdle /\ SearchIdle /\ RetryIdle
    /\ RateIdle /\ LoopIdle /\ ExtractIdle /\ PriceIdle /\ CacheIdle
    /\ ProductIdle /\ ResolveIdle /\ PricesIdle /\ OpenIdle /\ JobIdle
NextClose == CloseCall
SpecClose == InitClose /\ [][NextClose]_vars

InitProduct ==
    /\ ProductInit /\ DedupIdle /\ FreshIdle /\ SearchIdle /\ RetryIdle
    /\ RateIdle /\ LoopIdle /\ ExtractIdle /\ PriceIdle /\ CacheIdle
    /\ CloseIdle /\ ResolveIdle /\ PricesIdle /\ OpenIdle /\ JobIdle
NextProduct == ProductExtract
SpecProduct == InitProduct /\ [][NextProduct]_vars

InitResolve ==
    /\ ResolveInit /\ DedupIdle /\ FreshIdle /\ SearchIdle /\ RetryIdle
    /\ RateIdle /\ LoopIdle /\ ExtractIdle /\ PriceIdle /\ CacheIdle
    /\ CloseIdle /\ ProductIdle /\ PricesIdle /\ OpenIdle /\ JobIdle
NextResolve == \E c \in Callers : \/ ResolveCacheGet(c) \/ ResolveFind(c)
                                 \/ ResolveCreate(c) \/ ResolveCacheSet(c)
SpecResolve == InitResolve /\ [][NextResolve]_vars

InitPrices ==
    /\ PricesInit /\ DedupIdle /\ FreshIdle /\ SearchIdle /\ RetryIdle
    /\ RateIdle /\ LoopIdle /\ ExtractIdle /\ PriceIdle /\ CacheIdle
    /\ CloseIdle /\ ProductIdle /\ ResolveIdle /\ OpenIdle /\ JobIdle
NextPrices == SavePrice
SpecPrices == InitPrices /\ [][NextPrices]_vars

InitOpen ==
    /\ OpenInit /\ DedupIdle /\ FreshIdle /\ SearchIdle /\ RetryIdle
    /\ RateIdle /\ LoopIdle /\ ExtractIdle /\ PriceIdle /\ CacheIdle
    /\ CloseIdle /\ ProductIdle /\ ResolveIdle /\ PricesIdle /\ JobIdle
NextOpen == OpenCall
SpecOpen == InitOpen /\ [][NextOpen]_vars

InitJob ==
    /\ JobInit /\ DedupIdle /\ FreshIdle /\ SearchIdle /\ RetryIdle
    /\ RateIdle /\ LoopIdle /\ ExtractIdle /\ PriceIdle /\ CacheIdle
    /\ CloseIdle /\ ProductIdle /\ ResolveIdle /\ PricesIdle /\ OpenIdle
NextJob == JobStart \/ JobSearch \/ JobSave \/ JobInvalidate \/ JobLoopEnd
             \/ JobClose
SpecJob == InitJob /\ [][NextJob]_vars

(***************************************************************************)
(* Properties of _deduplicate_products                                     *)
(***************************************************************************)
KeysOf(products) == {NormalizedKey(products[i]) : i \in 1..Len(products)}

IndexesOfKey(products, k) == {i \in 1..Len(products) : NormalizedKey(products[i]) = k}

MinPriceOfKey(products, k) ==
    LET ps == {GetPrice(products[i]) : i \in IndexesOfKey(products, k)}
    IN  CHOOSE m \in ps : \A q \in ps : m <= q

\* The first entry of `products` with key k that carries the minimum price
FirstCheapest(products, k) ==
    LET m  == MinPriceOfKey(products, k)
        is == {i \in IndexesOfKey(products, k) : GetPrice(products[i]) = m}
    IN  products[CHOOSE i \in is : \A j \in is : i <= j]

\* C6: deduplicating an already deduplicated list changes nothing, neither
\* the entries nor their order: dedupe(dedupe(x)) = dedupe(x).
C6_DedupIdempotent == dpc = "twice" => dOut2 = dOut

\* A run in which the first pass replaced a kept entry by a cheaper duplicate
\* and the second pass has been applied to the result.
C6_Witness ==
    /\ dpc = "twice"
    /\ \E i, j \in 1..Len(dIn) :
          /\ i < j
          /\ NormalizedKey(dIn[i]) = NormalizedKey(dIn[j])
          /\ GetPrice(dIn[j]) < GetPrice(dIn[i])
    /\ Len(dOut) >= 2

\* C7: the output holds exactly one entry per normalized key of the input,
\* and that entry is the first input entry carrying the minimum price of
\* its key (a price tie keeps the earlier entry).
C7_OnePerKeyCheapestFirst ==
    dpc # "ready" =>
        /\ KeysOf(dOut) = KeysOf(dIn)
        /\ \A k \in KeysOf(dIn) :
              /\ Cardinality(IndexesOfKey(dOut, k)) = 1
              /\ \A j \in IndexesOfKey(dOut, k) : dOut[j] = FirstCheapest(dIn, k)

\* 299.99 then 289.99 under one key leaves the 289.99 entry, and a price tie
\* between two different entries of one key has been resolved.
C7_Witness ==
    /\ dpc = "once"
    /\ Len(dIn) = 3
    /\ dIn[1] = [name |-> <<"A", "b">>, price |-> 29999, store |-> "amazon"]
    /\ dIn[2] = [name |-> <<"a", "-", "b">>, price |-> 28999, store |-> "amazon"]
    /\ dIn[3] = [name |-> <<"A", "b">>, price |-> 28999, store |-> "amazon"]
    /\ dOut = <<dIn[2]>>

(***************************************************************************)
(* Properties of _filter_fresh_products                                    *)
(***************************************************************************)
\* C4: a stored product is kept as fresh exactly when its last observation
\* time is later than now minus cache_ttl_hours (23 hours old is kept and
\* 25 hours old is dropped under a 24 hour TTL), whatever the format of the
\* timestamp string.
C4_FreshIffWithinTtl ==
    fpc = "done" =>
        \A i \in 1..Len(fIn) :
            (fIn[i] \in Range(fOut)) <=>
                /\ "updatedAt" \in DOMAIN fIn[i]
                /\ fIn[i].updatedAt.t > utcnow - cache_ttl_hours

(***************************************************************************)
(* Properties of intelligent_search and its scrape tasks                   *)
(***************************************************************************)
\* What store s's task returns, as a function of the task's own outcomes
ExpectedResult(s) ==
    IF tfail[s] # "none" THEN <<>>
    ELSE LET kept == SelectSeq([i \in 1..Len(save_ok[s]) |-> i],
                               LAMBDA i : save_ok[s][i])
         IN  [j \in 1..Len(kept) |-> SavedDict(scraped_products[s][kept[j]], s)]

\* Store s's task is over and failed entirely: its session failed to open,
\* its search failed, or every one of its saves failed.
FailedEntirely(s) ==
    /\ tpc[s] = "done"
    /\ \/ tfail[s] = "open"
       \/ search_failed[s]
       \/ /\ Len(save_ok[s]) >= 1
          /\ Len(save_ok[s]) = Len(scraped_products[s])
          /\ \A i \in 1..Len(save_ok[s]) : ~save_ok[s][i]

\* The scraped part of the list handed to the deduplicator
ScrapedPart == SubSeq(merged, results.sources.database + 1, Len(merged))

\* C1: when both stores are scraped and store b fails entirely, the scraped
\* products of the call are exactly what store a's own task outcomes give
\* (unchanged by b), none of them comes from b, and the call has returned
\* its result (it is at "done": _scrape_store and gather let nothing escape).
C1_FailureIsolation ==
    \A a, b \in StoreNames :
         ( /\ a # b
           /\ spc = "done"
           /\ {a, b} \subseteq Range(results.scraping_triggered)
           /\ FailedEntirely(b) )
         => /\ ScrapedPart = ExpectedResult(a)
            /\ \A i \in 1..Len(ScrapedPart) : ScrapedPart[i].store # b
            /\ results.sources.scraped = Len(ExpectedResult(a))

\* Thomann scraped two cards and every save failed while Amazon's task
\* returned two saved products; the call has returned.
C1_Witness ==
    /\ spc = "done"
    /\ stores = <<"amazon", "thomann">>
    /\ FailedEntirely("thomann")
    /\ tfail["thomann"] = "none"
    /\ Len(scraped_products["thomann"]) = 2
    /\ tfail["amazon"] = "none"
    /\ Len(task_result["amazon"]) = 2
    /\ results.sources.scraped = 2

\* C2: a scrape task that has ended holds no browser resource (playwright
\* driver, browser, context, page), whichever way it ended.
C2_NoResourceHeldAtTaskEnd ==
    \A s \in StoreNames : tpc[s] = "done" => held[s] = {}

\* C3: without force_scrape, scraping is skipped exactly when the number of
\* fresh database products is at least half of max_results_per_store *
\* len(stores); otherwise every requested store is marked for scraping.
C3_SkipIffHalfFresh ==
    (spc \in {"gather", "merge", "done"} /\ ~force_scrape) =>
        LET fresh   == results.sources.database
            skipped == /\ results.scraping_triggered = <<>>
                       /\ \A s \in StoreNames : tpc[s] = "none"
        IN  /\ skipped <=> 2 * fresh >= max_results_per_store * Len(stores)
            /\ ~skipped => /\ results.scraping_triggered = stores
                           /\ \A s \in Range(TaskOrder(stores)) :
                                 tpc[s] # "none"

\* One store, max_results_per_store = 1 and no fresh product (0 < 0.5):
\* scraping was triggered and the call has returned.
C3_Witness ==
    /\ spc = "done"
    /\ ~force_scrape
    /\ max_results_per_store = 1
    /\ stores = <<"amazon">>
    /\ db_reads = 1
    /\ results.sources.database = 0
    /\ results.scraping_triggered = stores
    /\ tpc["amazon"] = "done"

NoNameCollision(products) ==
    \A i, j \in 1..Len(products) :
        i # j => NormalizedKey(products[i]) # NormalizedKey(products[j])

\* C5: with force_scrape the database is not read and sources.database is
\* 0; and whenever no two of the collected products (fresh rows and scraped
\* products) share a normalized name, total_count equals sources.database +
\* sources.scraped and the length of the returned list.
C5_ForceScrapeCounts ==
    spc = "done" =>
        /\ force_scrape => (db_reads = 0 /\ results.sources.database = 0)
        /\ NoNameCollision(merged) =>
              /\ results.total_count =
                    results.sources.database + results.sources.scraped
              /\ results.total_count = Len(results.products)

\* A forced search of both stores that returned 2 and 1 products without a
\* name collision: total_count = 3, scraped = 3, database = 0.
C5_Witness ==
    /\ spc = "done"
    /\ force_scrape
    /\ stores = <<"amazon", "thomann">>
    /\ Len(task_result["amazon"]) = 2
    /\ Len(task_result["thomann"]) = 1
    /\ NoNameCollision(merged)
    /\ results.total_count = 3
    /\ results.sources.scraped = 3
    /\ results.sources.database = 0

(***************************************************************************)
(* Properties of _retry_with_backoff                                       *)
(***************************************************************************)
\* C8: func is invoked at most max_retries times; a return hands back the
\* result of the first successful invocation, which is the last invocation
\* made; ScraperError is raised only after exactly max_retries invocations
\* that all failed, and carries max_retries and the last failure.
C8_BoundedRetries ==
    /\ calls <= max_retries
    /\ calls = Len(outcomes)
    /\ rpc = "returned" =>
          /\ outcomes[calls] = "ok"
          /\ \A i \in 1..(calls - 1) : outcomes[i] \in FailureOutcomes
          /\ retry_result = calls
    /\ rpc = "raised" =>
          /\ calls = max_retries
          /\ \A i \in 1..calls : outcomes[i] \in FailureOutcomes
          /\ retry_error.attempts = max_retries
          /\ retry_error.last =
                (IF calls = 0 THEN "None" ELSE ErrorOf(outcomes[calls]))

\* Three attempts allowed: two failures, then the third invocation succeeds
\* and its result is returned.
C8_Witness ==
    /\ rpc = "returned"
    /\ max_retries = 3
    /\ outcomes = <<"timeout", "exception", "ok">>
    /\ retry_result = 3

\* Seconds-to-half-seconds bounds of the pause after the k-th failure
PauseMin(k) == 2 * retry_delay * 2 ^ (k - 1)
PauseMax(k) == PauseMin(k) + 2

\* C9: after the k-th failed attempt with attempts remaining, the pause
\* before attempt k+1 (the backoff sleep plus what _rate_limit adds) lasts
\* between retry_delay * 2^(k-1) and retry_delay * 2^(k-1) + 1 seconds, and
\* there is no sleep after the final failed attempt.
C9_BackoffWindow ==
    /\ \A k \in 1..Len(backoffs) :
          LET pause == backoffs[k] +
                       (IF Len(rl_waits) >= k + 1 THEN rl_waits[k + 1] ELSE 0)
          IN  PauseMin(k) <= pause /\ pause <= PauseMax(k)
    /\ Len(backoffs) <= calls
    /\ Len(backoffs) < max_retries \/ max_retries = 0
    /\ rpc = "raised" /\ max_retries > 0 => Len(backoffs) = max_retries - 1

\* retry_delay = 2, max_retries = 3: all three attempts failed, the pauses
\* were 2 s and 4 s (plus jitter), and the error was raised without a third.
C9_Witness ==
    /\ rpc = "raised"
    /\ retry_delay = 2
    /\ max_retries = 3
    /\ Len(backoffs) = 2
    /\ backoffs[1] \in 4..6
    /\ backoffs[2] \in 8..10

(***************************************************************************)
(* Properties of wait_for_rate_limit                                       *)
(***************************************************************************)
\* Calls i < j are consecutive calls for one origin, and both returned
ConsecutiveReturned(i, j) ==
    /\ i < j
    /\ rate_log[i].origin = rate_log[j].origin
    /\ \A k \in (i + 1)..(j - 1) : rate_log[k].origin # rate_log[i].origin
    /\ ~rate_log[i].raised /\ ~rate_log[j].raised

IntervalOf(origin) == Minute \div GetRateLimit(rate_env, origin)

Max(a, b) == IF a > b THEN a ELSE b

\* C10 (as stated): the second of two consecutive calls for an origin returns
\* at least 60 / rpm seconds after the first returned, and when time has
\* already elapsed since the first returned it waits no longer than the
\* rest of that interval plus the 0.5 s jitter bound.
C10_RemainingIntervalOnly ==
    \A i, j \in 1..Len(rate_log) :
        ConsecutiveReturned(i, j) =>
            LET interval == IntervalOf(rate_log[i].origin)
                elapsed  == rate_log[j].start - rate_log[i].end
                waited   == rate_log[j].end - rate_log[j].start
            IN  /\ rate_log[j].end - rate_log[i].end >= interval
                /\ elapsed > 0 =>
                      waited <= Max(0, interval - elapsed) + RateJitterMax

\* C10 (amended): the second of two consecutive calls for an origin returns
\* at least 60 / rpm seconds after the first returned, and it waits between
\* the full interval and the full interval plus the 0.5 s jitter bound,
\* whatever time has elapsed since the first returned.
C10_FullIntervalAlways ==
    \A i, j \in 1..Len(rate_log) :
        ConsecutiveReturned(i, j) =>
            LET interval == IntervalOf(rate_log[i].origin)
                waited   == rate_log[j].end - rate_log[j].start
            IN  /\ rate_log[j].end - rate_log[i].end >= interval
                /\ interval <= waited
                /\ waited <= interval + RateJitterMax

\* Default 20 requests per minute: a second call for amazon started one
\* second after the first returned, and returned at least 3 s after it.
C10_Witness ==
    /\ Len(rate_log) = 2
    /\ "amazon" \notin DOMAIN rate_env
    /\ rate_log[1].origin = "amazon" /\ rate_log[2].origin = "amazon"
    /\ rate_log[2].start - rate_log[1].end = 2
    /\ rate_log[2].end - rate_log[1].end >= 6

(***************************************************************************)
(* Properties of the concurrent card loops                                 *)
(***************************************************************************)
\* C11: the rate-limit wait of one origin never delays a step of the task
\* of another origin: every card step runs at the time its task became
\* ready, and none became ready while another origin's task was sleeping in
\* the rate limiter.
C11_NoCrossOriginDelay ==
    \A i \in 1..Len(llog) :
        /\ llog[i].behind = {}
        /\ llog[i].ran = llog[i].ready

(***************************************************************************)
(* Properties of the extractors                                            *)
(***************************************************************************)
\* The cards among the first max_results that extract to a product, in
\* document order
ExtractedInOrder ==
    SelectSeq([i \in 1..LoopLength(Len(xcards), xmax) |-> i],
              LAMBDA i : xcards[i] = "product")

\* C12: a search that got past navigation returns exactly the cards among
\* the first max_results whose extraction succeeded, in document order (a
\* failing card is skipped and stops nothing), at most max_results of them.
C12_FailedCardSkipped ==
    (xpc = "done" /\ xop = "search" /\ xnav = "ok") =>
        /\ xresult.kind = "list"
        /\ xresult.items = ExtractedInOrder
        /\ Len(xresult.items) <= xmax

\* Of three cards with max_results = 3 the second failed: the first and the
\* third are returned.
C12_Witness ==
    /\ xpc = "done"
    /\ xop = "search"
    /\ xmax = 3
    /\ xcards = <<"product", "none", "product">>
    /\ xresult = ReturnedList(<<1, 3>>)

\* C13: no call of search or get_product ends by raising: it returns a list
\* (search) or a product or None (get_product).
C13_NothingCrossesBoundary ==
    xpc = "done" =>
        /\ xresult.kind # "raised"
        /\ xop = "search" => xresult.kind = "list"
        /\ xop = "get_product" => xresult.kind \in {"product", "None"}

(***************************************************************************)
(* Properties of price parsing                                             *)
(***************************************************************************)
\* The index of the last "," of str (0: none)
LastComma(str) ==
    LET is == {i \in 1..Len(str) : str[i] = ","}
    IN  IF is = {} THEN 0 ELSE CHOOSE i \in is : \A j \in is : j <= i

\* str is digits, possibly "."-grouped, then one "," and digits: the German
\* form; its value reads "." as thousands separator and "," as decimal mark
GermanForm(str) ==
    LET c == LastComma(str)
    IN  /\ c > 1 /\ c < Len(str)
        /\ \A i \in 1..Len(str) :
              \/ str[i] \in Digits
              \/ i = c
              \/ i < c /\ str[i] = "."
        /\ str[1] \in Digits

GermanValue(str) ==
    LET c == LastComma(str)
    IN  Float(FALSE, IntOf(SelectSeq(str, LAMBDA ch : ch \in Digits)),
              Len(str) - c)

\* The three prices of the claim's examples
ExamplesParse ==
    /\ price_str = <<"€", "1", ".", "2", "3", "4", ",", "5", "6">>
          => price_out.thomann = Float(FALSE, 123456, 2)
    /\ price_str = <<"4", "9", ",", "9", "0", " ", "€">>
          => price_out.thomann = Float(FALSE, 4990, 2)
    /\ price_str = <<"2", "9", ".", "9", "9">>
          => price_out.thomann = Float(FALSE, 2999, 2)

\* Both extractors read a string of the German form with "." as thousands
\* separator and "," as decimal mark
SeparatorsRead ==
    GermanForm(price_str) =>
        /\ price_out.thomann = GermanValue(price_str)
        /\ price_out.amazon = GermanValue(price_str)

\* C14: the examples parse to 1234.56, 49.90 and 29.99; "." is read as
\* thousands separator and "," as decimal mark; and the price an extractor
\* builds from any string is a non-negative number, 0.0 when the string
\* does not parse to one (never None, never negative).
C14_PriceParsing ==
    ppc = "done" =>
        /\ ExamplesParse
        /\ SeparatorsRead
        /\ \A e \in {price_out.amazon, price_out.thomann} :
              /\ e.kind = "float"
              /\ ~e.neg
              /\ (SanitizePrice(price_str) = NoPrice
                    \/ SanitizePrice(price_str).neg) => e = Zero

(***************************************************************************)
(* Properties of the cache operations                                      *)
(***************************************************************************)
\* C15: no cache operation raises to its caller; with the backend down a
\* lookup behaves as "not cached": a read returns None, and ensure_store
\* goes on to the database and returns the store id.
C15_CacheNeverRaises ==
    cpc = "done" =>
        /\ ~cache_out.raised
        /\ backend = "down" =>
              /\ cache_op \in {"CacheManager.get", "CacheService.get_product"}
                    => cache_out.value = "None"
              /\ cache_op = "PriceService.ensure_store"
                    => (cache_out.db_read /\ cache_out.value = "store_id")

(***************************************************************************)
(* Further properties of intelligent_search and its scrape tasks           *)
(***************************************************************************)
\* Store s's task ended in failure: a step of the task raised, or its
\* search hit an error
TaskFailed(s) == tpc[s] = "done" /\ (tfail[s] # "none" \/ search_failed[s])

TaskSucceeded(s) == tpc[s] = "done" /\ tfail[s] = "none" /\ ~search_failed[s]

\* C16: when both stores were scraped, store b's task failed and store a's
\* succeeded, the returned result carries a failed-stores list and that
\* list is exactly <<b>>.
C16_FailedStoresReported ==
    \A a, b \in StoreNames :
        ( /\ a # b
          /\ spc = "done"
          /\ {a, b} \subseteq Range(results.scraping_triggered)
          /\ TaskFailed(b)
          /\ TaskSucceeded(a) )
        => /\ "stores_failed" \in DOMAIN results
           /\ results.stores_failed = <<b>>

\* C17: every product a task scraped is in what the task returns, in
\* order, whether or not its save succeeded, and a product whose save
\* failed carries the unpersisted flag.
C17_UnpersistedStillReturned ==
    \A s \in StoreNames :
        (tpc[s] = "done" /\ tfail[s] = "none") =>
            /\ Len(task_result[s]) = Len(scraped_products[s])
            /\ \A i \in 1..Len(task_result[s]) :
                  /\ task_result[s][i].name = scraped_products[s][i].name
                  /\ ~save_ok[s][i] =>
                        /\ "unpersisted" \in DOMAIN task_result[s][i]
                        /\ task_result[s][i].unpersisted

\* C20: a call with an empty query or an empty store list fails: it never
\* reads the database, starts no scrape task and returns no result.
C20_InvalidInputFatal ==
    (query = <<>> \/ stores_arg = <<>>) =>
        /\ db_reads = 0
        /\ \A s \in StoreNames : tpc[s] = "none"
        /\ spc # "done"

(***************************************************************************)
(* Properties of close()                                                   *)
(***************************************************************************)
\* C18: close() raises nothing in any state; a call in which no release
\* fails leaves no resource held; a call after such a call changes
\* nothing; and a call in which closing the page fails still releases the
\* browser.
C18_CloseIdempotentTotal ==
    \A i \in 1..Len(close_log) :
        /\ ~close_log[i].raised
        /\ ~close_log[i].failed => close_log[i].after = {}
        /\ (i > 1 /\ ~close_log[i - 1].failed) =>
              close_log[i].after = close_log[i].before
        /\ close_log[i].page_failed => "browser" \notin close_log[i].after

\* C19: once the caller has cancelled the task (during the rate-limit
\* wait, during an attempt or during a backoff sleep) the cancellation has
\* left _retry_with_backoff and the operation is not invoked again: the
\* number of invocations stays what it was at the cancellation, and nothing
\* is returned or raised as ScraperError.
C19_NoRetryAfterCancel ==
    cancelled_at # NoTime =>
        /\ rpc = "cancelled"
        /\ calls = cancelled_at
        /\ retry_result = 0
        /\ retry_error.attempts = 0

\* Three attempts allowed: the first failed, the task was cancelled during
\* the second, and no third was made.
C19_Witness ==
    /\ max_retries = 3
    /\ outcomes = <<"exception", "cancelled">>
    /\ cancelled_at = 2
    /\ rpc = "cancelled"
    /\ calls = 2

(***************************************************************************)
(* Properties of the ScrapedProduct the extractors build                   *)
(***************************************************************************)
\* C21: every ScrapedProduct an extractor returns has a price that is a
\* number >= 0 (never None, never negative), a non-empty url whenever its
\* availability is true, and availability false when the price is the 0.0
\* that stands for "not extracted".
C21_ProductInvariants ==
    (kpc = "done" /\ kout.returned) =>
        /\ kout.price.kind = "float"
        /\ ~kout.price.neg
        /\ kout.availability => kout.url # ""
        /\ kout.price = Zero => ~kout.availability

(***************************************************************************)
(* Properties of the result's store list, order and timing                 *)
(***************************************************************************)
\* The stores for which the call started a scrape task, in list order
StoresScraped ==
    SelectSeq(stores, LAMBDA s : s \in StoreNames /\ tpc[s] # "none")

\* C22: the store list a finished call returns as the stores searched is
\* the list of the stores it scraped: empty when scraping was skipped, and
\* without any store for which no scrape task was started.
C22_StoresSearchedAreScraped ==
    spc = "done" => results.stores_searched = StoresScraped

(***************************************************************************)
(* Order of the output of _deduplicate_products                            *)
(***************************************************************************)
\* The index of the first entry of `products` with key k
FirstIndex(products, k) ==
    LET is == IndexesOfKey(products, k)
    IN  CHOOSE i \in is : \A j \in is : i <= j

\* The index of the first entry of `products` with key k that carries the
\* minimum price of the key: the entry the function keeps
KeptIndex(products, k) ==
    LET m  == MinPriceOfKey(products, k)
        is == {i \in IndexesOfKey(products, k) : GetPrice(products[i]) = m}
    IN  CHOOSE i \in is : \A j \in is : i <= j

OccursOnce(products, k) == Cardinality(IndexesOfKey(products, k)) = 1

\* C23 as stated: the output is in the order of the keys' first appearance
\* in the input: entries of keys that occur once keep their relative order
\* and the entry kept for a duplicated key stands where the key first
\* appeared, also when a later, cheaper duplicate replaced the first one.
C23_OrderOfFirstAppearance ==
    dpc # "ready" =>
        \A p, q \in 1..Len(dOut) :
            p < q => FirstIndex(dIn, NormalizedKey(dOut[p]))
                       < FirstIndex(dIn, NormalizedKey(dOut[q]))

\* C23 (amended): entries of keys that occur once keep their relative
\* order, and the output is in the input order of the entries kept: an
\* entry kept for a duplicated key stands at the position of the key's
\* first appearance unless a later, strictly cheaper duplicate replaced
\* it, and then it stands where that duplicate stood in the input.
C23_OrderOfKeptEntries ==
    dpc # "ready" =>
        \A p, q \in 1..Len(dOut) :
            p < q =>
              LET kp == NormalizedKey(dOut[p])
                  kq == NormalizedKey(dOut[q])
              IN  /\ KeptIndex(dIn, kp) < KeptIndex(dIn, kq)
                  /\ (OccursOnce(dIn, kp) /\ OccursOnce(dIn, kq)) =>
                        FirstIndex(dIn, kp) < FirstIndex(dIn, kq)

\* "Ab" at 299.99, then "c", then "a-b" at 289.99: the cheaper duplicate
\* replaced the first entry and stands after "c".
C23_Witness ==
    /\ dpc = "once"
    /\ Len(dIn) = 3
    /\ dIn[1] = [name |-> <<"A", "b">>, price |-> 29999, store |-> "amazon"]
    /\ dIn[2] = [name |-> <<"c">>, price |-> 29999, store |-> "amazon"]
    /\ dIn[3] = [name |-> <<"a", "-", "b">>, price |-> 28999, store |-> "amazon"]
    /\ dOut = <<dIn[2], dIn[3]>>

\* The price of a product of the merged list: "price" for a scraped record,
\* the lowest stored price ("cheapest_price") for a database record, none
\* (Inf) for a record with neither
PriceOfProduct(product) ==
    IF "price" \in DOMAIN product THEN product.price
    ELSE IF "cheapest_price" \in DOMAIN product THEN product.cheapest_price
    ELSE Inf

C25_OneStorePerDomain ==
    /\ Cardinality(store_rows) <= 1
    /\ \A c \in Callers : epc[c] = "done" => eresult[c] \in store_rows

\* C26: every successful save adds exactly one Price row and leaves the
\* rows stored before it as they were.
C26_PricesAppendOnly ==
    last_save.by # "none" =>
        /\ Len(price_rows) = Len(last_save.before) + 1
        /\ SubSeq(price_rows, 1, Len(last_save.before)) = last_save.before

\* C27: the merge / deduplicate / sort step is reached only when every
\* scrape task of the call has ended, and a task goes through open,
\* search, persist, close in that order: nothing is searched before the
\* session is open, no product is persisted before the search has
\* returned or after the session was closed, and each product of the
\* search is persisted at most once.
C27_MergeAfterTasksInOrder ==
    /\ spc \in {"merge", "done"} =>
          \A s \in StoreNames : tpc[s] \in {"none", "done"}
    /\ \A s \in StoreNames :
          /\ tpc[s] \in {"none", "open"} =>
                scraped_products[s] = <<>> /\ save_ok[s] = <<>>
          /\ tpc[s] = "search" => save_ok[s] = <<>> /\ held[s] = Resources
          /\ tpc[s] \in {"connect", "save"} => held[s] = Resources
          /\ Len(save_ok[s]) <= Len(scraped_products[s])
          /\ save_ok[s] # <<>> => tpc[s] \in {"save", "close", "done"}

\* Both stores scraped: the thomann task failed to open its session, the
\* amazon task persisted two products, and the call has merged and returned.
C27_Witness ==
    /\ spc = "done"
    /\ tpc = [s \in StoreNames |-> "done"]
    /\ tfail["thomann"] = "open"
    /\ save_ok["amazon"] = <<TRUE, TRUE>>
    /\ Len(results.products) = 2

(***************************************************************************)
(* Properties of init_browser                                              *)
(***************************************************************************)
\* C28: an init_browser call that fails leaves the session as it was
\* before it was ever opened (no driver, browser, context or page held, no
\* field set), and an init_browser call that returns leaves the session
\* open with a page: it never returns early without one.
C28_FailedOpenIsUnopened ==
    \A i \in 1..Len(open_log) :
        /\ open_log[i].raised =>
              open_log[i].held = {} /\ open_log[i].fields = NoFields
        /\ ~open_log[i].raised =>
              open_log[i].fields.page /\ open_log[i].held = Resources

(***************************************************************************)
(* Properties of the order of requests and rate limiter calls              *)
(***************************************************************************)
\* C29: in a search, no navigation to the store is issued before a rate
\* limiter call for the store has returned.
C29_RateLimitBeforeSearch ==
    xop = "search" =>
        \A i \in 1..Len(xtrace) :
            xtrace[i] = "goto" => \E j \in 1..(i - 1) : xtrace[j] = "rate_limit"

(***************************************************************************)
(* Properties of the scheduled job                                         *)
(***************************************************************************)
\* C30: scrape_store never calls scraper.close() twice; when it ends for a
\* known store it has called it exactly once, also after a failed search,
\* a failed save or a cancellation; unless cancelled it has then processed
\* every query in order, a failed search or save notwithstanding, and
\* taken up every product each search returned; for an unknown store it
\* ends with no browser acquired, no query processed and no close call.
C30_JobClosesOnceAndGoesOn ==
    /\ close_calls <= 1
    /\ jpc # "done" => close_calls = 0
    /\ (jpc = "done" /\ KnownStore(job_store)) =>
          /\ close_calls = 1
          /\ ~job_cancelled =>
                /\ Len(job_log) = job_queries
                /\ \A i \in 1..Len(job_log) :
                      /\ job_log[i].query = i
                      /\ job_log[i].found >= 0 =>
                            job_log[i].taken = job_log[i].found
    /\ (jpc = "done" /\ ~KnownStore(job_store)) =>
          close_calls = 0 /\ ~job_browser /\ job_log = <<>>

\* Two queries: the search of the first raised; the second returned two
\* products, the save of one failed and the other was saved; close() has
\* been called once.
C30_Witness ==
    /\ jpc = "done"
    /\ job_store = "amazon"
    /\ job_queries = 2
    /\ job_log = << [query |-> 1, found |-> -1, taken |-> 0, saved |-> 0],
                    [query |-> 2, found |-> 2, taken |-> 2, saved |-> 1] >>
    /\ close_calls = 1

====
